---- MODULE Spec2Model ----
(***************************************************************************)
(* Model of the wasmcat binary parser (crates/parser): the primitive       *)
(* decoder, the section parsers, the serial driver parse() and the         *)
(* parallel driver par_parse() with its rayon worker tasks and the         *)
(* spin::Mutex around the shared Module.                                   *)
(*                                                                         *)
(* A buffer is a sequence of bytes 0..255.  A cursor position is the       *)
(* 0-based offset of the next byte, so the next byte is buf[pos + 1].      *)
(* Every decoding operator returns a result record: Ok(value, new          *)
(* position), Err(error) or Panic (an index out of range, an arithmetic    *)
(* overflow that aborts, a failed allocation).                             *)
(***************************************************************************)
EXTENDS Integers, Sequences, FiniteSets, TLC

\* ------------------------------------------------------------------ bounds

\* longest run of sections in a generated input
MaxSections == 2

\* longest run of instructions in a generated expression
MaxInstrs == 4

\* ---------------------------------------------------------------- results

Ok(v, p) == [tag |-> "Ok", val |-> v, pos |-> p]

Err(e) == [tag |-> "Err", val |-> e, pos |-> 0]

Panic == [tag |-> "Panic", val |-> [kind |-> "panic", args |-> <<>>], pos |-> 0]

NoResult == [tag |-> "None", val |-> [kind |-> "none", args |-> <<>>], pos |-> 0]

\* error.rs: the error kinds the modelled paths produce
ErrDecode == [kind |-> "Decode", args |-> <<>>]

ErrLeb128Io == [kind |-> "Leb128", args |-> <<>>, name |-> "IoError"]

ErrLeb128Overflow == [kind |-> "Leb128", args |-> <<>>, name |-> "Overflow"]

ErrUtf8 == [kind |-> "Utf8", args |-> <<>>]

ErrInvalidWasm == [kind |-> "InvalidWasm", args |-> <<>>]

ErrInvalidSectionId(b) == [kind |-> "InvalidSectionId", args |-> <<b>>]

ErrInvalidType(n, b) == [kind |-> "InvalidType", args |-> <<b>>, name |-> n]

ErrInvalidTypeTag(b) == [kind |-> "InvalidTypeTag", args |-> <<b>>]

ErrInvalidImportKind(b) == [kind |-> "InvalidImportKind", args |-> <<b>>]

ErrInvalidExportKind(b) == [kind |-> "InvalidExportKind", args |-> <<b>>]

ErrInvalidFlags(f, n) == [kind |-> "InvalidFlags", args |-> <<f>>, name |-> n]

ErrInvalidElmType(b) == [kind |-> "InvalidElmType", args |-> <<b>>]

ErrInvalidConstExprOpcode(i) ==
    [kind |-> "InvalidConstExprOpcode", args |-> <<>>, instr |-> i]

ErrSectionOutOfBounds(id, size, consumed) ==
    [kind |-> "SectionOutOfBounds", args |-> <<id, size, consumed>>]

ErrBinaryReader == [kind |-> "BinaryReaderErr", args |-> <<>>]

ErrInvalidBlockType == [kind |-> "InvalidBlockType", args |-> <<>>]

\* Error::Decode(io::Error::other("invalid var_s33: ..."))
ErrS33TooLong ==
    [kind |-> "Decode", args |-> <<>>,
     name |-> "invalid var_s33: integer representation too long"]

\* ------------------------------------------------------ primitive decoder

\* evaluate e once and hand its value to K
Force(e, K(_)) == CHOOSE y \in {K(x) : x \in {e}} : TRUE

\* the `?` operator: an Err (or a panic) of r is the result, an Ok is handed
\* to the rest of the function
Then(r, K(_)) == Force(r, LAMBDA x : IF x.tag = "Ok" THEN K(x) ELSE x)

Pow2(n) == 2 ^ n

\* is_empty with the threshold off by one
is_empty_off_by_one(buf, pos) ==
    IF pos > Len(buf) THEN {"panic", "false"}
    ELSE IF Len(buf) - pos <= 2 THEN {"true"} ELSE {"false"}

\* Decoder::is_empty: len - position <= 1 on u64.  When the position is past
\* the end the subtraction overflows: a build with overflow checks panics, a
\* build without them wraps to a huge value, which is not <= 1.
is_empty(buf, pos) ==
    IF pos > Len(buf) THEN {"panic", "false"}
    ELSE IF Len(buf) - pos <= 1 THEN {"true"} ELSE {"false"}

\* Decoder::remaining_slice: the bytes from min(position, len) on
remaining_slice(buf, pos) ==
    SubSeq(buf, (IF pos < Len(buf) THEN pos ELSE Len(buf)) + 1, Len(buf))

\* Decoder::read_n / Decoder::read_bytes: Cursor::read_exact
read_bytes(buf, pos, n) ==
    IF pos <= Len(buf) /\ Len(buf) - pos >= n
    THEN Ok(SubSeq(buf, pos + 1, pos + n), pos + n)
    ELSE Err(ErrDecode)

read_u8(buf, pos) ==
    Then(read_bytes(buf, pos, 1), LAMBDA r : Ok(r.val[1], r.pos))

\* the bytes taken in big-endian order
from_be_bytes(b) == b[4] + 256 * b[3] + 65536 * b[2] + 16777216 * b[1]

\* u32::from_le_bytes
from_le_bytes(b) == b[1] + 256 * b[2] + 65536 * b[3] + 16777216 * b[4]

read_u32(buf, pos) ==
    Then(read_bytes(buf, pos, 4), LAMBDA r : Ok(from_le_bytes(r.val), r.pos))

\* leb128::read::unsigned, the skip of the continuation bytes of an
\* overflowing encoding
RECURSIVE leb128_skip(_, _)
leb128_skip(buf, pos) ==
    IF pos >= Len(buf) THEN Err(ErrLeb128Io)
    ELSE IF buf[pos + 1] >= 128 THEN leb128_skip(buf, pos + 1)
    ELSE Err(ErrLeb128Overflow)

\* A u64 is held as three limbs, least significant first: bits 0..27, bits
\* 28..55 and bits 56..63.  A shift that is a multiple of 7 puts the seven
\* low bits of a byte inside one limb.
U64Zero == <<0, 0, 0>>

\* result |= low_bits << shift
u64_or_shifted(result, low_bits, shift) ==
    [result EXCEPT ![(shift \div 28) + 1] = @ + low_bits * Pow2(shift % 28)]

\* leb128::read::unsigned: accumulate 7 bits per byte into a u64; only the
\* tenth byte (shift 63) is checked for overflow
RECURSIVE leb128_unsigned(_, _, _, _)
leb128_unsigned(buf, pos, shift, result) ==
    IF pos >= Len(buf) THEN Err(ErrLeb128Io)
    ELSE IF shift = 63 /\ buf[pos + 1] # 0 /\ buf[pos + 1] # 1
    THEN (IF buf[pos + 1] >= 128 THEN leb128_skip(buf, pos + 1)
          ELSE Err(ErrLeb128Overflow))
    ELSE Force(u64_or_shifted(result, buf[pos + 1] % 128, shift),
               LAMBDA r : IF buf[pos + 1] < 128 THEN Ok(r, pos + 1)
                          ELSE leb128_unsigned(buf, pos + 1, shift + 7, r))

\* the cast `as u32`: v mod 2^32, computed on the two 16-bit halves
as_u32(v) == (v % 65536) + (65536 * ((v \div 65536) % 65536))

\* the cast `as u32` of a u64: the low 32 bits, the bits above them dropped
u64_as_u32(v) == v[1] + (Pow2(28) * (v[2] % 16))

\* Decoder::read_var_u32: the u64 cast to u32
read_var_u32(buf, pos) ==
    Then(leb128_unsigned(buf, pos, 0, U64Zero), LAMBDA r :
      Ok(u64_as_u32(r.val), r.pos))

\* std::str::from_utf8: is b[i..] a sequence of well-formed UTF-8 scalars
IsCont(b, i) == i <= Len(b) /\ b[i] >= 128 /\ b[i] <= 191

InRange(b, i, lo, hi) == i <= Len(b) /\ b[i] >= lo /\ b[i] <= hi

\* the bytes taken without validation
utf8_unchecked(b, i) == TRUE

RECURSIVE valid_utf8(_, _)
valid_utf8(b, i) ==
    IF i > Len(b) THEN TRUE
    ELSE LET c == b[i]
         IN  IF c <= 127 THEN valid_utf8(b, i + 1)
             ELSE IF c >= 194 /\ c <= 223
                  THEN IsCont(b, i + 1) /\ valid_utf8(b, i + 2)
             ELSE IF c = 224
                  THEN InRange(b, i + 1, 160, 191) /\ IsCont(b, i + 2)
                       /\ valid_utf8(b, i + 3)
             ELSE IF (c >= 225 /\ c <= 236) \/ c = 238 \/ c = 239
                  THEN IsCont(b, i + 1) /\ IsCont(b, i + 2)
                       /\ valid_utf8(b, i + 3)
             ELSE IF c = 237
                  THEN InRange(b, i + 1, 128, 159) /\ IsCont(b, i + 2)
                       /\ valid_utf8(b, i + 3)
             ELSE IF c = 240
                  THEN InRange(b, i + 1, 144, 191) /\ IsCont(b, i + 2)
                       /\ IsCont(b, i + 3) /\ valid_utf8(b, i + 4)
             ELSE IF c >= 241 /\ c <= 243
                  THEN IsCont(b, i + 1) /\ IsCont(b, i + 2)
                       /\ IsCont(b, i + 3) /\ valid_utf8(b, i + 4)
             ELSE IF c = 244
                  THEN InRange(b, i + 1, 128, 143) /\ IsCont(b, i + 2)
                       /\ IsCont(b, i + 3) /\ valid_utf8(b, i + 4)
             ELSE FALSE

\* Decoder::read_str: the slice [..len] of the remaining bytes panics when
\* len exceeds them
read_str(buf, pos) ==
    Then(read_var_u32(buf, pos), LAMBDA l :
      Force(remaining_slice(buf, l.pos), LAMBDA rem :
        IF l.val > Len(rem) THEN Panic
        ELSE IF valid_utf8(SubSeq(rem, 1, l.val), 1)
             THEN Ok(SubSeq(rem, 1, l.val), l.pos + l.val)
             ELSE Err(ErrUtf8)))

\* ------------------------------------------------------------ type decoder

\* types.rs ty_enum!(RefType)
RefType_try_from(b) ==
    IF b = 112 THEN Ok("FuncRef", 0)
    ELSE IF b = 111 THEN Ok("ExternRef", 0)
    ELSE Err(ErrInvalidType("RefType", b))

\* types.rs impl TryFrom<u8> for ValType
ValType_try_from(b) ==
    IF b = 127 THEN Ok("I32", 0)
    ELSE IF b = 126 THEN Ok("I64", 0)
    ELSE IF b = 125 THEN Ok("F32", 0)
    ELSE IF b = 124 THEN Ok("F64", 0)
    ELSE IF b = 123 THEN Ok("V128", 0)
    ELSE IF b = 112 THEN Ok("Ref(FuncRef)", 0)
    ELSE IF b = 111 THEN Ok("Ref(ExternRef)", 0)
    ELSE Err(ErrInvalidType("ValType", b))

read_valtype(buf, pos) ==
    Then(read_u8(buf, pos), LAMBDA r :
      Then(ValType_try_from(r.val), LAMBDA t : Ok(t.val, r.pos)))

read_reftype(buf, pos) ==
    Then(read_u8(buf, pos), LAMBDA r :
      Then(RefType_try_from(r.val), LAMBDA t : Ok(t.val, r.pos)))

\* an i64 in two limbs, hi * 2^28 + lo with 0 <= lo < 2^28; v is a value the
\* arithmetic holds in one word
I64(v) == [hi |-> v \div Pow2(28), lo |-> v % Pow2(28)]

\* read_var_s33, the single byte: ((byte as i8) << 1) as i64 >> 1
s33_single(byte) == I64(IF byte >= 64 THEN byte - 128 ELSE byte)

\* read_var_s33 after the break: (result << ashift) >> ashift with
\* ashift = 64 - shift, the sign extension of the low shift bits
s33_sign_extend(result, shift) ==
    I64(IF result % Pow2(shift) >= Pow2(shift - 1)
        THEN (result % Pow2(shift)) - Pow2(shift)
        ELSE result % Pow2(shift))

\* the check of the last byte with every byte taken as well formed
sign_and_unused_bit_unchecked(byte, shift) == 0

\* read_var_s33: (byte << 1) as i8 >> (33 - shift)
sign_and_unused_bit(byte, shift) ==
    LET b == (byte * 2) % 256
    IN  (IF b >= 128 THEN b - 256 ELSE b) \div Pow2(33 - shift)

\* read_var_s33, the loop: result holds the bits below shift; the byte read
\* at shift >= 25 (shift is 28 there) is or-ed in and the result returned
\* as it is
RECURSIVE read_var_s33_loop(_, _, _, _)
read_var_s33_loop(buf, pos, shift, result) ==
    Then(read_u8(buf, pos), LAMBDA byte :
      IF shift >= 25
      THEN IF byte.val >= 128
              \/ sign_and_unused_bit(byte.val, shift) \notin {0, -1}
           THEN Err(ErrS33TooLong)
           ELSE Ok([hi |-> (byte.val % 128) * Pow2(shift - 28), lo |-> result],
                   byte.pos)
      ELSE Force(result + (byte.val % 128) * Pow2(shift), LAMBDA acc :
             IF byte.val < 128
             THEN Ok(s33_sign_extend(acc, shift + 7), byte.pos)
             ELSE read_var_s33_loop(buf, byte.pos, shift + 7, acc)))

\* Decoder::read_var_s33
read_var_s33(buf, pos) ==
    Then(read_u8(buf, pos), LAMBDA byte :
      IF byte.val < 128 THEN Ok(s33_single(byte.val), byte.pos)
      ELSE read_var_s33_loop(buf, byte.pos, 7, byte.val % 128))

\* Decoder::peek: the index panics at the end of the buffer
peek(buf, pos) == IF pos < Len(buf) THEN Ok(buf[pos + 1], pos) ELSE Panic

\* the i64 cast to u32 with `as`
i64_as_u32(v) == Ok([hi |-> v.hi % 16, lo |-> v.lo], 0)

\* the conversion that keeps the low 32 bits of any value
i64_into_u32_unchecked(v) == Ok([hi |-> v.hi % 16, lo |-> v.lo], 0)

\* u32::try_from(i64) as read_block_type uses it; the u32 stays in limbs
i64_try_into_u32(v) ==
    IF v.hi \in 0..15 THEN Ok(v, 0) ELSE Err(ErrInvalidBlockType)

\* Decoder::read_block_type
read_block_type(buf, pos) ==
    Then(peek(buf, pos), LAMBDA p :
      IF p.val = 64
      THEN Then(read_u8(buf, pos), LAMBDA b : Ok([Empty |-> TRUE], b.pos))
      ELSE IF ValType_try_from(p.val).tag = "Ok"
      THEN Then(read_u8(buf, pos), LAMBDA b :
             Ok([Type |-> ValType_try_from(p.val).val], b.pos))
      ELSE Then(read_var_s33(buf, pos), LAMBDA idx :
             Then(i64_try_into_u32(idx.val), LAMBDA u :
               Ok([FuncType |-> u.val], idx.pos))))

\* types.rs HeapType::try_from, the abstract heap types by their code
AbstractHeapType(op) ==
    CASE op = -13 -> "NoFunc" [] op = -14 -> "NoExtern" [] op = -15 -> "None"
      [] op = -16 -> "Func" [] op = -17 -> "Exn" [] op = -18 -> "Any"
      [] op = -19 -> "Eq" [] op = -20 -> "I31" [] op = -21 -> "Struct"
      [] op = -22 -> "Array"

\* types.rs HeapType::try_from(i64): the results the builds can produce.
\* op = value as i8; (op + 0x7f) as u8 + 0x01 overflows i8 for op > 0 and
\* u8 for op = -128: the build with overflow checks panics there, the other
\* wraps
HeapType_try_from(value) ==
    IF value.hi >= 0 THEN {Ok([Concrete |-> i64_as_u32(value).val], 0)}
    ELSE LET b == value.lo % 256
             op == IF b >= 128 THEN b - 256 ELSE b
             t == (op + 127) % 256
         IN  IF op \in -22..-13 THEN {Ok(AbstractHeapType(op), 0)}
             ELSE {Err(ErrInvalidType("HeapType", (t + 1) % 256))}
                  \cup (IF op > 0 \/ t = 255 THEN {Panic} ELSE {})

\* Decoder::read_heaptype
read_heaptype(buf, pos) ==
    Force(read_var_s33(buf, pos), LAMBDA v :
      IF v.tag # "Ok" THEN {v}
      ELSE {IF r.tag = "Ok" THEN Ok(r.val, v.pos) ELSE r :
              r \in HeapType_try_from(v.val)})

\* Option<u32>: <<>> is None, <<n>> is Some(n)
None == <<>>

Some(n) == <<n>>

read_limit(buf, pos) ==
    Then(read_u8(buf, pos), LAMBDA limited :
      Then(read_var_u32(buf, limited.pos), LAMBDA min :
        IF limited.val = 1
        THEN Then(read_var_u32(buf, min.pos), LAMBDA max :
               Ok([min |-> min.val, max |-> Some(max.val)], max.pos))
        ELSE Ok([min |-> min.val, max |-> None], min.pos)))

read_memtype(buf, pos) == read_limit(buf, pos)

read_tabletype(buf, pos) ==
    Then(read_reftype(buf, pos), LAMBDA element :
      Then(read_limit(buf, element.pos), LAMBDA limit :
        Ok([element |-> element.val, limit |-> limit.val], limit.pos)))

read_globaltype(buf, pos) ==
    Then(read_valtype(buf, pos), LAMBDA valtype :
      Then(read_u8(buf, valtype.pos), LAMBDA m :
        Ok([ty |-> valtype.val, mutable |-> (m.val = 1)], m.pos)))

\* ----------------------------------------------------- instruction decoder

\* An instruction is [op |-> name, args |-> immediates as integers].  A block
\* type immediate is its s33 value: -64 is Empty, -1..-17 a value type, a
\* non-negative value a function type index.
Instr(o, a) == [op |-> o, args |-> a]

\* wasmparser BinaryReader::read_var_u32 as visit_operator uses it: at most
\* five bytes, the fifth holding four bits
RECURSIVE wp_read_var_u32(_, _, _, _)
wp_read_var_u32(buf, pos, shift, result) ==
    IF pos >= Len(buf) THEN Err(ErrBinaryReader)
    ELSE IF shift = 28 /\ buf[pos + 1] >= 16 THEN Err(ErrBinaryReader)
    ELSE Force(result + (buf[pos + 1] % 128) * Pow2(shift),
               LAMBDA r : IF buf[pos + 1] < 128 THEN Ok(r, pos + 1)
                          ELSE wp_read_var_u32(buf, pos + 1, shift + 7, r))

\* wasmparser BinaryReader::read_var_i32: sign extension from bit 6 of the
\* last byte; the fifth byte must be a sign extension of bit 31
RECURSIVE wp_read_var_i32(_, _, _, _)
wp_read_var_i32(buf, pos, shift, result) ==
    IF pos >= Len(buf) THEN Err(ErrBinaryReader)
    ELSE Force(buf[pos + 1], LAMBDA b :
           IF shift = 28
           THEN (IF b >= 128 \/ (b >= 8 /\ b < 120) THEN Err(ErrBinaryReader)
                 ELSE IF b >= 120 THEN Ok(result + (b - 128) * Pow2(28), pos + 1)
                 ELSE Ok(result + b * Pow2(28), pos + 1))
           ELSE IF b >= 128
                THEN Force(result + (b % 128) * Pow2(shift), LAMBDA r :
                       wp_read_var_i32(buf, pos + 1, shift + 7, r))
           ELSE IF b >= 64
                THEN Ok(result + (b - 128) * Pow2(shift), pos + 1)
           ELSE Ok(result + b * Pow2(shift), pos + 1))

\* wasmparser BinaryReader::read_block_type followed by From<BlockType>
wp_read_block_type(buf, pos) ==
    IF pos >= Len(buf) THEN Err(ErrBinaryReader)
    ELSE Force(buf[pos + 1], LAMBDA b :
           IF b = 64 THEN Ok(-64, pos + 1)
           ELSE IF b > 64 /\ b < 128
                THEN (IF ValType_try_from(b).tag = "Ok" THEN Ok(b - 128, pos + 1)
                      ELSE Err(ErrBinaryReader))
           ELSE IF b < 64 THEN Ok(b, pos + 1)
           ELSE IF pos + 1 < Len(buf) /\ buf[pos + 2] < 64
                THEN Ok((b % 128) + 128 * buf[pos + 2], pos + 2)
           ELSE Err(ErrBinaryReader))

\* the opcodes of the modelled subset, by immediate schedule
OpNoArg ==
    [b \in {0, 1, 5, 11, 15, 26, 27, 106, 209} |->
        CASE b = 0 -> "Unreachable" [] b = 1 -> "Nop" [] b = 5 -> "Else"
          [] b = 11 -> "End" [] b = 15 -> "Return" [] b = 26 -> "Drop"
          [] b = 27 -> "Select" [] b = 106 -> "I32Add" [] b = 209 -> "RefIsNull"]

OpBlock ==
    [b \in {2, 3, 4, 6} |->
        CASE b = 2 -> "Block" [] b = 3 -> "Loop" [] b = 4 -> "If" [] b = 6 -> "Try"]

OpIndex ==
    [b \in {12, 13, 16, 32, 33, 35, 36, 210} |->
        CASE b = 12 -> "Br" [] b = 13 -> "BrIf" [] b = 16 -> "Call"
          [] b = 32 -> "LocalGet" [] b = 33 -> "LocalSet"
          [] b = 35 -> "GlobalGet" [] b = 36 -> "GlobalSet"
          [] b = 210 -> "RefFunc"]

\* impl TryFrom<&mut Decoder> for Instruction: BinaryReader::visit_operator
\* over the remaining slice, then the cursor is moved past the operator
read_instruction(buf, pos) ==
    IF pos >= Len(buf) THEN Err(ErrBinaryReader)
    ELSE Force(buf[pos + 1], LAMBDA b :
           IF b \in DOMAIN OpNoArg THEN Ok(Instr(OpNoArg[b], <<>>), pos + 1)
           ELSE IF b \in DOMAIN OpBlock
                THEN Then(wp_read_block_type(buf, pos + 1), LAMBDA t :
                       Ok(Instr(OpBlock[b], <<t.val>>), t.pos))
           ELSE IF b \in DOMAIN OpIndex
                THEN Then(wp_read_var_u32(buf, pos + 1, 0, 0), LAMBDA i :
                       Ok(Instr(OpIndex[b], <<i.val>>), i.pos))
           ELSE IF b = 65
                THEN Then(wp_read_var_i32(buf, pos + 1, 0, 0), LAMBDA i :
                       Ok(Instr("I32Const", <<i.val>>), i.pos))
           ELSE Err(ErrBinaryReader))

\* Instruction::is_const
is_const(instr) ==
    instr.op \in {"F64Const", "F32Const", "I32Const", "I64Const", "V128Const",
                  "GlobalGet", "RefFunc", "RefNull", "RefIsNull"}

\* ----------------------------------------------------- expression decoder

\* the loop without the check of is_const
RECURSIVE read_const_expr_unchecked(_, _, _)
read_const_expr_unchecked(buf, pos, instrs) ==
    Then(read_instruction(buf, pos), LAMBDA instr :
      Force(Append(instrs, instr.val), LAMBDA pushed :
        IF instr.val.op = "End" THEN Ok(pushed, instr.pos)
        ELSE read_const_expr_unchecked(buf, instr.pos, pushed)))

\* Decoder::read_const_expr: the loop, instrs being the vector built so far
RECURSIVE read_const_expr_loop(_, _, _)
read_const_expr_loop(buf, pos, instrs) ==
    Then(read_instruction(buf, pos), LAMBDA instr :
      IF ~is_const(instr.val) /\ instr.val.op # "End"
      THEN Err(ErrInvalidConstExprOpcode(instr.val))
      ELSE Force(Append(instrs, instr.val), LAMBDA pushed :
             IF instr.val.op = "End" THEN Ok(pushed, instr.pos)
             ELSE read_const_expr_loop(buf, instr.pos, pushed)))

read_const_expr(buf, pos) == read_const_expr_loop(buf, pos, <<>>)

\* the openers without If
start_block_without_if(instr) == instr.op \in {"Block", "Loop", "Try", "TryTable"}

\* the instructions that open a block in read_expr
start_block(instr) == instr.op \in {"Block", "Loop", "If", "Try", "TryTable"}

\* Decoder::read_expr: the loop with its block_depth counter
RECURSIVE read_expr_loop(_, _, _, _)
read_expr_loop(buf, pos, block_depth, instrs) ==
    Then(read_instruction(buf, pos), LAMBDA instr :
      Force(Append(instrs, instr.val), LAMBDA pushed :
        Force(IF start_block(instr.val) THEN block_depth + 1 ELSE block_depth,
              LAMBDA d :
                IF instr.val.op = "End"
                THEN (IF d = 0 THEN Ok(pushed, instr.pos)
                      ELSE read_expr_loop(buf, instr.pos, d - 1, pushed))
                ELSE read_expr_loop(buf, instr.pos, d, pushed))))

read_expr(buf, pos) == read_expr_loop(buf, pos, 0, <<>>)

\* ---------------------------------------------------------- vector reads

RECURSIVE read_items(_, _, _, _, _)
RECURSIVE read_ele(_, _, _)

\* the loop of read_vec run over 0..len-1
read_vec_one_short(kind, buf, pos) ==
    Then(read_var_u32(buf, pos), LAMBDA len :
      read_items(kind, buf, len.pos, IF len.val = 0 THEN 0 ELSE len.val - 1, <<>>))

\* Decoder::read_vec: a u32 count, then that many elements, stopping at the
\* first error; kind names the element closure
read_vec(kind, buf, pos) ==
    Then(read_var_u32(buf, pos), LAMBDA len :
      read_items(kind, buf, len.pos, len.val, <<>>))

\* Decoder::read_svec: the same read into a SmallVec
read_svec(kind, buf, pos) ==
    Then(read_var_u32(buf, pos), LAMBDA len :
      Force(<<>>, LAMBDA svec : read_items(kind, buf, len.pos, len.val, svec)))

\* Decoder::read_resulttype
read_resulttype(buf, pos) == read_svec("valtype", buf, pos)

\* (0..len).map(|_| ele(self)).collect::<Result<_, _>>()
read_items(kind, buf, pos, n, acc) ==
    IF n = 0 THEN Ok(acc, pos)
    ELSE Then(read_ele(kind, buf, pos), LAMBDA r :
           Force(Append(acc, r.val), LAMBDA pushed :
             read_items(kind, buf, r.pos, n - 1, pushed)))

\* parse_type_section, the element closure
type_entry(buf, pos) ==
    Then(read_u8(buf, pos), LAMBDA type_tag :
      IF type_tag.val # 96 THEN Err(ErrInvalidTypeTag(type_tag.val))
      ELSE Then(read_resulttype(buf, type_tag.pos), LAMBDA params :
             Then(read_resulttype(buf, params.pos), LAMBDA results :
               Ok([params |-> params.val, results |-> results.val], results.pos))))

\* parse_import_section, the match on the kind byte
import_kind(kind, buf, pos) ==
    CASE kind = 0 -> Then(read_var_u32(buf, pos), LAMBDA d : Ok([Func |-> d.val], d.pos))
      [] kind = 1 -> Then(read_tabletype(buf, pos), LAMBDA d : Ok([Table |-> d.val], d.pos))
      [] kind = 2 -> Then(read_memtype(buf, pos), LAMBDA d : Ok([Memory |-> d.val], d.pos))
      [] kind = 3 -> Then(read_globaltype(buf, pos), LAMBDA d : Ok([Global |-> d.val], d.pos))
      [] OTHER -> Err(ErrInvalidImportKind(kind))

\* parse_import_section, the element closure
import_entry(buf, pos) ==
    Then(read_str(buf, pos), LAMBDA module_name :
      Then(read_str(buf, module_name.pos), LAMBDA field_name :
        Then(read_u8(buf, field_name.pos), LAMBDA kind :
          Then(import_kind(kind.val, buf, kind.pos), LAMBDA k :
            Ok([module_name |-> module_name.val, field_name |-> field_name.val,
                kind |-> k.val], k.pos)))))

\* parse_global_section, the element closure
global_entry(buf, pos) ==
    Then(read_globaltype(buf, pos), LAMBDA ty :
      Then(read_const_expr(buf, ty.pos), LAMBDA expr :
        Ok([ty |-> ty.val, expr |-> expr.val], expr.pos)))

\* parse_export_section, the match on the kind byte
export_kind(kind, idx) ==
    CASE kind = 0 -> Ok([Func |-> idx], 0)
      [] kind = 1 -> Ok([Table |-> idx], 0)
      [] kind = 2 -> Ok([Mem |-> idx], 0)
      [] kind = 3 -> Ok([Global |-> idx], 0)
      [] OTHER -> Err(ErrInvalidExportKind(kind))

\* parse_export_section, the element closure: the index is read before the
\* kind byte is matched
export_entry(buf, pos) ==
    Then(read_str(buf, pos), LAMBDA name :
      Then(read_u8(buf, name.pos), LAMBDA kind :
        Then(read_var_u32(buf, kind.pos), LAMBDA idx :
          Then(export_kind(kind.val, idx.val), LAMBDA k :
            Ok([name |-> name.val, kind |-> k.val], idx.pos)))))

\* parse_element_section, the first match on flags: the segment kind
element_kind(flags, buf, pos) ==
    IF flags \in {0, 2, 4, 6}
    THEN Then(IF flags \in {2, 6}
              THEN Then(read_var_u32(buf, pos), LAMBDA t : Ok(Some(t.val), t.pos))
              ELSE Ok(None, pos),
              LAMBDA tabidx :
                Then(read_const_expr(buf, tabidx.pos), LAMBDA offset :
                  Ok([Active |-> [table |-> tabidx.val, offset |-> offset.val]],
                     offset.pos)))
    ELSE IF flags \in {1, 5} THEN Ok([Passive |-> TRUE], pos)
    ELSE IF flags \in {3, 7} THEN Ok([Declared |-> TRUE], pos)
    ELSE Err(ErrInvalidFlags(flags, "element segment"))

\* the element type with any elemkind byte taken as funcref
element_ty_any_elemkind(flags, buf, pos) ==
    IF flags \in {0, 4} THEN Ok("FuncRef", pos)
    ELSE IF flags \in {1, 2, 3}
    THEN Then(read_u8(buf, pos), LAMBDA elemkind : Ok("FuncRef", elemkind.pos))
    ELSE IF flags \in {5, 6, 7} THEN read_reftype(buf, pos)
    ELSE Err(ErrInvalidFlags(flags, "element segment"))

\* parse_element_section, the second match on flags: the element type
element_ty(flags, buf, pos) ==
    IF flags \in {0, 4} THEN Ok("FuncRef", pos)
    ELSE IF flags \in {1, 2, 3}
    THEN Then(read_u8(buf, pos), LAMBDA elemkind :
           IF elemkind.val = 0 THEN Ok("FuncRef", elemkind.pos)
           ELSE Err(ErrInvalidElmType(elemkind.val)))
    ELSE IF flags \in {5, 6, 7} THEN read_reftype(buf, pos)
    ELSE Err(ErrInvalidFlags(flags, "element segment"))

\* parse_element_section, the third match on flags: the initializers
element_init(flags, buf, pos) ==
    IF flags \in {0, 1, 2, 3} THEN read_svec("funcidx", buf, pos)
    ELSE IF flags \in {4, 5, 6, 7} THEN read_svec("constexpr", buf, pos)
    ELSE Err(ErrInvalidFlags(flags, "element segment"))

\* parse_element_section, the element closure: kind, then type, then init
element_entry(buf, pos) ==
    Then(read_var_u32(buf, pos), LAMBDA flags :
      Then(element_kind(flags.val, buf, flags.pos), LAMBDA kind :
        Then(element_ty(flags.val, buf, kind.pos), LAMBDA ty :
          Then(element_init(flags.val, buf, ty.pos), LAMBDA init :
            Ok([ty |-> ty.val, init |-> init.val, kind |-> kind.val], init.pos)))))

\* the closure of the locals vector of a code entry
locals_entry(buf, pos) ==
    Then(read_var_u32(buf, pos), LAMBDA n :
      Then(read_valtype(buf, n.pos), LAMBDA valtype :
        Ok([n |-> n.val, ty |-> valtype.val], valtype.pos)))

\* parse_code_section, the element closure: size, locals and body are read
\* one after the other from the section's cursor
code_entry(buf, pos) ==
    Then(read_var_u32(buf, pos), LAMBDA size :
      Then(read_svec("locals", buf, size.pos), LAMBDA locals :
        Then(read_expr(buf, locals.pos), LAMBDA expr :
          Ok([size |-> size.val, locals |-> locals.val, expr |-> expr.val],
             expr.pos))))

\* par_parse_code_section, the closure of the index pass: the window of one
\* body, the cursor being set past it without a bounds check
code_window(buf, pos) ==
    Then(read_var_u32(buf, pos), LAMBDA size :
      Ok([start |-> size.pos, end |-> size.pos + size.val], size.pos + size.val))

\* parse_data_section, the match on flags
data_kind(flags, buf, pos) ==
    IF flags = 1 THEN Ok([Passive |-> TRUE], pos)
    ELSE IF flags \in {0, 2}
    THEN Then(IF flags = 2 THEN read_var_u32(buf, pos) ELSE Ok(0, pos),
              LAMBDA memidx :
                Then(read_const_expr(buf, memidx.pos), LAMBDA offset :
                  Ok([Active |-> [memory |-> memidx.val, offset |-> offset.val]],
                     offset.pos)))
    ELSE Err(ErrInvalidFlags(flags, "dats segment"))

\* parse_data_section, the element closure
data_entry(buf, pos) ==
    Then(read_var_u32(buf, pos), LAMBDA flags :
      Then(data_kind(flags.val, buf, flags.pos), LAMBDA kind :
        Then(read_var_u32(buf, kind.pos), LAMBDA len :
          Then(read_bytes(buf, len.pos, len.val), LAMBDA init :
            Ok([init |-> init.val, kind |-> kind.val], init.pos)))))

\* the funcidx initializer without the closing End
funcidx_entry_unwrapped(buf, pos) ==
    Then(read_var_u32(buf, pos), LAMBDA idx :
      Ok(<<Instr("RefFunc", <<idx.val>>)>>, idx.pos))

\* the funcidx initializer of an element segment, wrapped as a ConstExpr
funcidx_entry(buf, pos) ==
    Then(read_var_u32(buf, pos), LAMBDA idx :
      Ok(<<Instr("RefFunc", <<idx.val>>), Instr("End", <<>>)>>, idx.pos))

\* the element closure handed to read_vec / read_svec
read_ele(kind, buf, pos) ==
    CASE kind = "valtype" -> read_valtype(buf, pos)
      [] kind = "u32" -> read_var_u32(buf, pos)
      [] kind = "type" -> type_entry(buf, pos)
      [] kind = "import" -> import_entry(buf, pos)
      [] kind = "table" -> read_tabletype(buf, pos)
      [] kind = "memory" -> read_memtype(buf, pos)
      [] kind = "global" -> global_entry(buf, pos)
      [] kind = "export" -> export_entry(buf, pos)
      [] kind = "element" -> element_entry(buf, pos)
      [] kind = "locals" -> locals_entry(buf, pos)
      [] kind = "code" -> code_entry(buf, pos)
      [] kind = "codewindow" -> code_window(buf, pos)
      [] kind = "data" -> data_entry(buf, pos)
      [] kind = "funcidx" -> funcidx_entry(buf, pos)
      [] kind = "constexpr" -> read_const_expr(buf, pos)

\* --------------------------------------------------------- section parsers

parse_type_section(buf, pos) == read_vec("type", buf, pos)

parse_import_section(buf, pos) == read_vec("import", buf, pos)

parse_function_section(buf, pos) == read_svec("u32", buf, pos)

parse_table_section(buf, pos) == read_svec("table", buf, pos)

parse_memory_section(buf, pos) == read_svec("memory", buf, pos)

parse_global_section(buf, pos) == read_vec("global", buf, pos)

parse_export_section(buf, pos) == read_vec("export", buf, pos)

parse_start_section(buf, pos) == read_var_u32(buf, pos)

parse_element_section(buf, pos) == read_vec("element", buf, pos)

parse_code_section(buf, pos) == read_vec("code", buf, pos)

parse_data_section(buf, pos) == read_vec("data", buf, pos)

parse_data_count_section(buf, pos) ==
    Then(read_var_u32(buf, pos), LAMBDA r : Ok(Some(r.val), r.pos))

\* section.rs SectionId: the two ids the drivers treat apart
Custom == 0

Code == 10

\* section.rs impl TryFrom<u8> for SectionId
SectionId_try_from(value) ==
    IF value \in 0..12 THEN Ok(value, 0) ELSE Err(ErrInvalidSectionId(value))

\* ModuleParser::read_section_header: id byte and size are both read before
\* the id is converted
read_section_header(buf, pos) ==
    Then(read_u8(buf, pos), LAMBDA id :
      Then(read_var_u32(buf, id.pos), LAMBDA size :
        Then(SectionId_try_from(id.val), LAMBDA sid :
          Ok([id |-> sid.val, size |-> size.val], size.pos))))

\* the magic b"\0asm"
Magic == <<0, 97, 115, 109>>

\* ModuleParser::parse_header: magic and version are both read, then the
\* magic is compared
parse_header(buf, pos) ==
    Then(read_bytes(buf, pos, 4), LAMBDA magic :
      Then(read_u32(buf, magic.pos), LAMBDA version :
        IF magic.val # Magic THEN Err(ErrInvalidWasm) ELSE version))

\* ------------------------------------------------------------------ Module

\* module.rs Module and its Default
DefaultModule ==
    [version |-> 0, custom_sections |-> <<>>, type_section |-> <<>>,
     import_section |-> <<>>, func_section |-> <<>>, table_section |-> <<>>,
     memory_section |-> <<>>, global_section |-> <<>>, export_section |-> <<>>,
     start_section |-> 0, element_section |-> <<>>, code_section |-> <<>>,
     data_section |-> <<>>, data_count_section |-> None]

\* the Module field a standard section id is stored in
Slot(id) ==
    CASE id = 1 -> "type_section" [] id = 2 -> "import_section"
      [] id = 3 -> "func_section" [] id = 4 -> "table_section"
      [] id = 5 -> "memory_section" [] id = 6 -> "global_section"
      [] id = 7 -> "export_section" [] id = 8 -> "start_section"
      [] id = 9 -> "element_section" [] id = 10 -> "code_section"
      [] id = 11 -> "data_section" [] id = 12 -> "data_count_section"

\* the store of a decoded section: a push for a custom section, the
\* assignment of the slot for a standard one
Install(module, id, v) ==
    IF id = Custom
    THEN [module EXCEPT !.custom_sections = Append(@, v)]
    ELSE [module EXCEPT ![Slot(id)] = v]

\* the match on the section id in parse(): the arm of a standard section
section_parser(id, buf, pos) ==
    CASE id = 1 -> parse_type_section(buf, pos)
      [] id = 2 -> parse_import_section(buf, pos)
      [] id = 3 -> parse_function_section(buf, pos)
      [] id = 4 -> parse_table_section(buf, pos)
      [] id = 5 -> parse_memory_section(buf, pos)
      [] id = 6 -> parse_global_section(buf, pos)
      [] id = 7 -> parse_export_section(buf, pos)
      [] id = 8 -> parse_start_section(buf, pos)
      [] id = 9 -> parse_element_section(buf, pos)
      [] id = 10 -> parse_code_section(buf, pos)
      [] id = 11 -> parse_data_section(buf, pos)
      [] id = 12 -> parse_data_count_section(buf, pos)

\* parse(), the Custom arm: the name, then the bytes up to the declared end.
\* end - position overflows when the name runs past the end: the build with
\* overflow checks panics, the other asks vec! for nearly 2^64 bytes and
\* panics on the capacity
custom_section(buf, pos, end) ==
    Then(read_str(buf, pos), LAMBDA name :
      IF name.pos > end THEN Panic
      ELSE Then(read_bytes(buf, name.pos, end - name.pos), LAMBDA data :
             Ok([name |-> name.val, data |-> data.val], data.pos)))

\* the bounds check that only rejects a cursor past the declared end
section_bounds_overrun_only(id, size, end, pos) ==
    IF pos > end
    THEN Err(ErrSectionOutOfBounds(id, size, as_u32(pos - (end - size))))
    ELSE Ok(id, pos)

\* parse(): the bounds check after a section parser has returned at pos
section_bounds(id, size, end, pos) ==
    IF pos # end
    THEN Err(ErrSectionOutOfBounds(id, size, as_u32(pos - (end - size))))
    ELSE Ok(id, pos)

\* the loop iteration of a driver that wants the standard sections in the
\* order of their ids
parse_section_ordered(buf, pos, module) ==
    Then(read_section_header(buf, pos), LAMBDA h :
      IF h.val.id # Custom
         /\ \E k \in (h.val.id + 1)..12 : module[Slot(k)] # DefaultModule[Slot(k)]
      THEN Err([kind |-> "Other", args |-> <<>>])
      ELSE Then(IF h.val.id = Custom
                THEN custom_section(buf, h.pos, h.pos + h.val.size)
                ELSE section_parser(h.val.id, buf, h.pos),
                LAMBDA r :
                  Then(section_bounds(h.val.id, h.val.size, h.pos + h.val.size, r.pos),
                       LAMBDA c : Ok(Install(module, h.val.id, r.val), r.pos))))

\* parse(): one iteration of the section loop, from the header read to the
\* bounds check; the value of an Ok result is the updated Module
parse_section(buf, pos, module) ==
    Then(read_section_header(buf, pos), LAMBDA h :
      Then(IF h.val.id = Custom
           THEN custom_section(buf, h.pos, h.pos + h.val.size)
           ELSE section_parser(h.val.id, buf, h.pos),
           LAMBDA r :
             Then(section_bounds(h.val.id, h.val.size, h.pos + h.val.size, r.pos),
                  LAMBDA c : Ok(Install(module, h.val.id, r.val), r.pos))))

\* parse(): the section loop run to its end from pos
RECURSIVE parse_loop(_, _, _)
parse_loop(buf, pos, module) ==
    IF "true" \in is_empty(buf, pos) THEN Ok(module, pos)
    ELSE IF "panic" \in is_empty(buf, pos) THEN Panic
    ELSE Then(parse_section(buf, pos, module), LAMBDA r :
           parse_loop(buf, r.pos, r.val))

\* parse(): the whole call on buf
parse(buf) ==
    Then(parse_header(buf, 0), LAMBDA h :
      parse_loop(buf, h.pos, [DefaultModule EXCEPT !.version = h.val]))

\* ------------------------------------------------- the parallel workers

\* par_parse(), the Custom arm: the name, then the rest of the window
par_custom_section(data) ==
    Then(read_str(data, 0), LAMBDA name :
      Then(read_bytes(data, name.pos, Len(data) - name.pos), LAMBDA bytes :
        Ok([name |-> name.val, data |-> bytes.val], bytes.pos)))

\* par_parse(), the closure of try_for_each up to the store: the section is
\* decoded by a fresh Decoder over its window data; nothing checks that the
\* parser consumed the window.  The Code arm is par_parse_code_section.
par_section(id, data) ==
    IF id = Custom THEN par_custom_section(data)
    ELSE section_parser(id, data, 0)

\* par_parse_code_section, the index pass over the section's decoder
code_index(data) == read_vec("codewindow", data, 0)

\* par_parse_code_section, the closure of the parallel map: one body decoded
\* from its window, the slice panicking when the window ends past the data
decode_body(data, window) ==
    IF window.end > Len(data) THEN Panic
    ELSE Force(SubSeq(data, window.start + 1, window.end), LAMBDA body :
           Then(read_svec("locals", body, 0), LAMBDA locals :
             Then(read_expr(body, locals.pos), LAMBDA expr :
               Ok([size |-> window.end - window.start,
                   locals |-> locals.val, expr |-> expr.val], expr.pos))))

\* the bodies pushed in the order in which they completed
collect_bodies_by_completion(bres, order) ==
    [k \in 1..Len(order) |-> bres[order[k]].val]

\* collect::<Result<Vec<_>, _>>() over the indexed parallel iterator: the
\* vector holds the bodies by position, whatever order they completed in
collect_bodies(bres, order) == [j \in 1..Len(bres) |-> bres[j].val]

\* -------------------------------------------------------------- the inputs

Header(v) == Magic \o v

Version1 == <<1, 0, 0, 0>>

\* the bytes a version field is drawn from
VersionBytes == {0, 1, 127}

\* sections, id and size included
SecCustomA == <<0, 3, 1, 97, 1>>

SecCustomB == <<0, 2, 1, 98>>

SecCustomOver == <<0, 2, 5, 97>>

SecTypeA == <<1, 4, 1, 96, 0, 0>>

SecTypeB == <<1, 5, 1, 96, 1, 127, 0>>

SecTypeShort == <<1, 2, 0, 0>>

SecTypeLong == <<1, 3, 1, 96, 0, 0>>

SecTypeTen == <<1, 10, 1, 96, 2, 127, 127, 2, 127, 127, 0, 0>>

SecTypeBadTag == <<1, 2, 1, 97>>

SecTypeTwo == <<1, 8, 2, 96, 0, 0, 96, 1, 127, 0>>

SecTypeCut == <<1, 3, 1, 96, 0>>

SecImport == <<2, 7, 1, 1, 109, 1, 102, 0, 0>>

SecFunction == <<3, 2, 1, 0>>

SecTable == <<4, 4, 1, 112, 0, 1>>

SecMemory == <<5, 4, 1, 1, 1, 2>>

SecGlobal == <<6, 6, 1, 127, 0, 65, 5, 11>>

SecExport == <<7, 5, 1, 1, 101, 0, 0>>

SecExportBad == <<7, 4, 1, 97, 9, 0>>

SecStart == <<8, 1, 5>>

SecElement == <<9, 7, 1, 0, 65, 0, 11, 1, 0>>

SecCode == <<10, 4, 1, 2, 0, 11>>

SecCodeTwo == <<10, 9, 2, 2, 0, 11, 4, 1, 1, 127, 11>>

SecCodeSkew == <<10, 7, 2, 5, 0, 11, 2, 0, 11>>

SecCodeBad == <<10, 8, 2, 3, 1, 1, 85, 2, 0, 255>>

SecCodeOver == <<10, 3, 1, 9, 0>>

SecCodeUnder == <<10, 4, 1, 1, 0, 11>>

SecData == <<11, 4, 1, 1, 1, 7>>

SecDataCount == <<12, 1, 1>>

\* the sections that are combined with each other
CorePool ==
    {SecCustomA, SecCustomB, SecCustomOver, SecTypeA, SecTypeB, SecTypeShort,
     SecTypeBadTag, SecExportBad, SecCode, SecCodeTwo, SecCodeSkew, SecCodeBad}

\* the sections that appear alone or after one core section
ExtraPool ==
    {SecTypeLong, SecTypeTen, SecTypeTwo, SecImport, SecFunction, SecTable,
     SecMemory, SecGlobal, SecExport, SecStart, SecElement, SecCodeOver,
     SecCodeUnder, SecData, SecDataCount}

\* the sections whose body is well formed and as long as the header declares
GoodPool ==
    {SecCustomA, SecCustomB, SecTypeA, SecTypeB, SecTypeTwo, SecImport,
     SecFunction, SecTable, SecMemory, SecGlobal, SecExport, SecStart,
     SecElement, SecCode, SecCodeTwo, SecData, SecDataCount}

RECURSIVE Concat(_)
Concat(ss) == IF ss = <<>> THEN <<>> ELSE Head(ss) \o Concat(Tail(ss))

\* the sequences of 0..n core sections
RECURSIVE CoreRuns(_)
CoreRuns(n) ==
    IF n = 0 THEN {<<>>}
    ELSE CoreRuns(n - 1)
         \cup {Append(r, x) : r \in {q \in CoreRuns(n - 1) : Len(q) = n - 1},
                              x \in CorePool}

\* well-formed header, then up to MaxSections core sections
CoreInputs == {Header(Version1) \o Concat(r) : r \in CoreRuns(MaxSections)}

\* an extra section alone, or after one core section
ExtraInputs ==
    {Header(Version1) \o x : x \in ExtraPool}
    \cup {Header(Version1) \o c \o x : c \in {SecCustomA, SecTypeA}, x \in ExtraPool}

\* the 8-byte inputs: the magic and any version
HeaderInputs ==
    {Header(<<a, b, c, d>>) : a \in VersionBytes, b \in VersionBytes,
                              c \in VersionBytes, d \in VersionBytes}

\* a wrong magic or a short header
BadHeaderInputs ==
    {<<0, 97, 115, 78, 1, 0, 0, 0>>, <<0, 97, 115, 78, 1, 0>>,
     <<0, 97, 115, 78>>, <<0, 97, 115, 109, 1>>, <<0, 97>>, <<>>,
     <<1, 97, 115, 109, 1, 0, 0, 0, 1, 4, 1, 96, 0, 0>>}

\* the header and one section header of declared size 0, nothing after it
ZeroSizeInputs == {Header(Version1) \o <<id, 0>> : id \in 0..12}

\* one byte after the header or after a section, an unknown section id
TailInputs ==
    {Header(Version1) \o <<9>>, Header(Version1) \o SecTypeA \o <<77>>,
     Header(Version1) \o <<13, 0>>, Header(Version1) \o SecTypeA \o <<13, 1, 0>>}

\* a type section whose entry needs one byte more than the section
\* declares, followed by another section
OverrunInputs ==
    {Header(Version1) \o SecTypeCut \o SecCustomB,
     Header(Version1) \o SecTypeCut \o SecDataCount}

\* two well-formed sections in either order, a standard id at most once
GoodInputs ==
    UNION {{Header(Version1) \o x \o y :
              y \in {z \in GoodPool : z[1] = Custom \/ z[1] # x[1]}} :
           x \in GoodPool}

Inputs ==
    CoreInputs \cup ExtraInputs \cup HeaderInputs \cup BadHeaderInputs
    \cup ZeroSizeInputs \cup TailInputs \cup GoodInputs \cup OverrunInputs

\* ------------------------------------------------------------------ state

VARIABLES
    input,      \* the byte buffer handed to Module::from_bytes
    s_pc,       \* parse(): "header", "loop" or "done"
    s_pos,      \* parse(): the cursor of self.decoder
    s_module,   \* parse(): the local Module being filled
    s_result,   \* parse(): what the call returned
    p_pc,       \* par_parse(): "header", "index", "workers" or "done"
    p_pos,      \* par_parse(): the cursor of self.decoder in the index pass
    sections,   \* par_parse(): the (id, start, end) tuples of the index pass
    packed,     \* par_parse(): the Module inside the spin::Mutex
    lock,       \* the mutex: 0 when free, else the worker that holds it
    w,          \* the worker task of each indexed section: its step, its
                \* value (section or error), its decoder's cursor, and for
                \* the Code task the body windows, the body results and the
                \* order in which the bodies completed
    p_result,   \* par_parse(): what the call returned
    d_in,       \* a decoder function called on its own: its name, the bytes
                \* of its Decoder and what the bytes were built from
    d_res       \* what that call returned

vars ==
    <<input, s_pc, s_pos, s_module, s_result, p_pc, p_pos, sections, packed,
      lock, w, p_result, d_in, d_res>>

dec_vars == <<d_in, d_res>>

serial_vars == <<s_pc, s_pos, s_module, s_result>>

par_vars == <<p_pc, p_pos, sections, packed, lock, w, p_result>>

\* a worker before it has run
IdleWorker ==
    [pc |-> "idle", val |-> NoResult.val, pos |-> 0, codes |-> <<>>,
     bres |-> <<>>, order |-> <<>>]

\* the worker states in which the task has ended
Terminal == {"done", "failed", "skipped", "panicked"}

\* no decoder function is called on its own
NoCall == [fn |-> "none", bytes |-> <<>>, toks |-> <<>>, aux |-> <<>>]

Init ==
    /\ input \in Inputs
    /\ d_in = NoCall /\ d_res = NoResult
    /\ s_pc = "header" /\ s_pos = 0 /\ s_module = DefaultModule
    /\ s_result = NoResult
    /\ p_pc = "header" /\ p_pos = 0 /\ sections = <<>>
    /\ packed = DefaultModule /\ lock = 0 /\ w = <<>>
    /\ p_result = NoResult

\* ---------------------------------------------------------------- parse()

\* parse(): Module::default() and module.version = self.parse_header()?
SerialHeader ==
    /\ s_pc = "header"
    /\ \E h \in {parse_header(input, 0)} :
           IF h.tag = "Ok"
           THEN /\ s_module' = [s_module EXCEPT !.version = h.val]
                /\ s_pos' = h.pos
                /\ s_pc' = "loop"
                /\ UNCHANGED s_result
           ELSE /\ s_result' = h
                /\ s_pc' = "done"
                /\ UNCHANGED <<s_module, s_pos>>
    /\ UNCHANGED <<input, dec_vars, par_vars>>

\* parse(): one iteration of while !self.decoder.is_empty()
SerialSection ==
    /\ s_pc = "loop"
    /\ \E o \in is_empty(input, s_pos) :
          /\ o # "true"
          /\ \E r \in {IF o = "panic" THEN Panic
                      ELSE parse_section(input, s_pos, s_module)} :
                 IF r.tag = "Ok"
                 THEN /\ s_module' = r.val
                      /\ s_pos' = r.pos
                      /\ UNCHANGED <<s_pc, s_result>>
                 ELSE /\ s_result' = r
                      /\ s_pc' = "done"
                      /\ UNCHANGED <<s_module, s_pos>>
    /\ UNCHANGED <<input, dec_vars, par_vars>>

\* parse(): the loop ends and Ok(module) is returned
SerialReturn ==
    /\ s_pc = "loop"
    /\ "true" \in is_empty(input, s_pos)
    /\ s_result' = Ok(s_module, s_pos)
    /\ s_pc' = "done"
    /\ UNCHANGED <<input, dec_vars, s_module, s_pos, par_vars>>

\* ------------------------------------------------------------ par_parse()

\* par_parse(): the header, read as in parse(); the second parser is run on
\* the same buffer once the first has returned
ParHeader ==
    /\ p_pc = "header"
    /\ s_pc = "done"
    /\ \E h \in {parse_header(input, 0)} :
           IF h.tag = "Ok"
           THEN /\ packed' = [packed EXCEPT !.version = h.val]
                /\ p_pos' = h.pos
                /\ p_pc' = "index"
                /\ UNCHANGED p_result
           ELSE /\ p_result' = h
                /\ p_pc' = "done"
                /\ UNCHANGED <<packed, p_pos>>
    /\ UNCHANGED <<input, dec_vars, serial_vars, sections, lock, w>>

\* par_parse(): one iteration of the index loop; the cursor is set to the
\* declared end without a check against the buffer length
ParIndexSection ==
    /\ p_pc = "index"
    /\ \E o \in is_empty(input, p_pos) :
          /\ o # "true"
          /\ \E h \in {IF o = "panic" THEN Panic
                      ELSE read_section_header(input, p_pos)} :
                 IF h.tag = "Ok"
                 THEN /\ sections' = Append(sections,
                              [id |-> h.val.id, start |-> h.pos,
                               end |-> h.pos + h.val.size])
                      /\ p_pos' = h.pos + h.val.size
                      /\ UNCHANGED <<p_pc, p_result>>
                 ELSE /\ p_result' = h
                      /\ p_pc' = "done"
                      /\ UNCHANGED <<sections, p_pos>>
    /\ UNCHANGED <<input, dec_vars, serial_vars, packed, lock, w>>

\* par_parse(): the index loop ends, the Module goes into the mutex and one
\* task per section is handed to the pool
ParSpawn ==
    /\ p_pc = "index"
    /\ "true" \in is_empty(input, p_pos)
    /\ w' = [i \in 1..Len(sections) |-> IdleWorker]
    /\ p_pc' = "workers"
    /\ UNCHANGED <<input, dec_vars, serial_vars, p_pos, sections, packed, lock, p_result>>

\* the window of section i: the slice panics when it ends past the buffer
Window(i) == SubSeq(input, sections[i].start + 1, sections[i].end)

\* a task that is not the Code arm decodes its section; the right-hand side
\* of the assignment is evaluated before packed.lock()
WorkerDecode(i) ==
    /\ p_pc = "workers"
    /\ w[i].pc = "idle"
    /\ sections[i].id # Code
    /\ \E r \in {IF sections[i].end > Len(input) THEN Panic
                ELSE par_section(sections[i].id, Window(i))} :
           w' = [w EXCEPT ![i].pc = CASE r.tag = "Ok" -> "parsed"
                                      [] r.tag = "Err" -> "failed"
                                      [] OTHER -> "panicked",
                          ![i].val = r.val, ![i].pos = r.pos]
    /\ UNCHANGED <<input, dec_vars, serial_vars, p_pc, p_pos, sections, packed, lock, p_result>>

\* the Code task runs the index pass of par_parse_code_section
WorkerCodeIndex(i) ==
    /\ p_pc = "workers"
    /\ w[i].pc = "idle"
    /\ sections[i].id = Code
    /\ \E r \in {IF sections[i].end > Len(input) THEN Panic
                ELSE code_index(Window(i))} :
           IF r.tag = "Ok"
           THEN w' = [w EXCEPT ![i].pc = "bodies", ![i].codes = r.val,
                               ![i].pos = r.pos,
                               ![i].bres = [j \in 1..Len(r.val) |-> NoResult]]
           ELSE w' = [w EXCEPT ![i].pc = IF r.tag = "Err" THEN "failed"
                                         ELSE "panicked",
                               ![i].val = r.val]
    /\ UNCHANGED <<input, dec_vars, serial_vars, p_pc, p_pos, sections, packed, lock, p_result>>

\* one body task of the Code task completes
BodyDecode(i, j) ==
    /\ p_pc = "workers"
    /\ w[i].pc = "bodies"
    /\ w[i].bres[j].tag = "None"
    /\ w' = [w EXCEPT ![i].bres[j] = decode_body(Window(i), w[i].codes[j]),
                      ![i].order = Append(@, j)]
    /\ UNCHANGED <<input, dec_vars, serial_vars, p_pc, p_pos, sections, packed, lock, p_result>>

\* a body task that has not started is dropped once another body has failed
BodySkip(i, j) ==
    /\ p_pc = "workers"
    /\ w[i].pc = "bodies"
    /\ w[i].bres[j].tag = "None"
    /\ \E k \in DOMAIN w[i].bres : w[i].bres[k].tag \in {"Err", "Panic"}
    /\ w' = [w EXCEPT ![i].bres[j] = [NoResult EXCEPT !.tag = "Skip"]]
    /\ UNCHANGED <<input, dec_vars, serial_vars, p_pc, p_pos, sections, packed, lock, p_result>>

\* every body task has ended: a panic is resumed, else an error of a failed
\* body is the result, else the bodies are collected
WorkerCodeCollect(i) ==
    /\ p_pc = "workers"
    /\ w[i].pc = "bodies"
    /\ \A j \in DOMAIN w[i].bres : w[i].bres[j].tag # "None"
    /\ IF \E j \in DOMAIN w[i].bres : w[i].bres[j].tag = "Panic"
       THEN w' = [w EXCEPT ![i].pc = "panicked", ![i].val = Panic.val]
       ELSE IF \E j \in DOMAIN w[i].bres : w[i].bres[j].tag = "Err"
       THEN \E j \in DOMAIN w[i].bres :
               /\ w[i].bres[j].tag = "Err"
               /\ w' = [w EXCEPT ![i].pc = "failed", ![i].val = w[i].bres[j].val]
       ELSE w' = [w EXCEPT ![i].pc = "parsed",
                           ![i].val = collect_bodies(w[i].bres, w[i].order)]
    /\ UNCHANGED <<input, dec_vars, serial_vars, p_pc, p_pos, sections, packed, lock, p_result>>

\* the lock taken by a worker that has not decoded its section yet
WorkerLock_before_decode(i) ==
    /\ p_pc = "workers"
    /\ w[i].pc = "idle"
    /\ lock = 0
    /\ lock' = i
    /\ UNCHANGED <<input, dec_vars, serial_vars, p_pc, p_pos, sections, packed, w, p_result>>

\* packed.lock(): the spin lock is taken when it is free
WorkerLock(i) ==
    /\ p_pc = "workers"
    /\ w[i].pc = "parsed"
    /\ lock = 0
    /\ lock' = i
    /\ w' = [w EXCEPT ![i].pc = "locked"]
    /\ UNCHANGED <<input, dec_vars, serial_vars, p_pc, p_pos, sections, packed, p_result>>

\* the store through the guard, which is dropped at the end of the statement
WorkerStore(i) ==
    /\ p_pc = "workers"
    /\ w[i].pc = "locked"
    /\ lock = i
    /\ packed' = Install(packed, sections[i].id, w[i].val)
    /\ lock' = 0
    /\ w' = [w EXCEPT ![i].pc = "done"]
    /\ UNCHANGED <<input, dec_vars, serial_vars, p_pc, p_pos, sections, p_result>>

\* try_for_each stops handing out items once a task has failed
WorkerSkip(i) ==
    /\ p_pc = "workers"
    /\ w[i].pc = "idle"
    /\ \E k \in DOMAIN w : w[k].pc \in {"failed", "panicked"}
    /\ w' = [w EXCEPT ![i].pc = "skipped"]
    /\ UNCHANGED <<input, dec_vars, serial_vars, p_pc, p_pos, sections, packed, lock, p_result>>

\* try_for_each returns: a panic of a task is resumed in the caller, else an
\* error of a failed task is returned by `?`, else the Module is taken out of
\* the mutex
ParJoin ==
    /\ p_pc = "workers"
    /\ \A i \in DOMAIN w : w[i].pc \in Terminal
    /\ IF \E i \in DOMAIN w : w[i].pc = "panicked"
       THEN p_result' = Panic
       ELSE IF \E i \in DOMAIN w : w[i].pc = "failed"
       THEN \E i \in DOMAIN w :
               /\ w[i].pc = "failed"
               /\ p_result' = Err(w[i].val)
       ELSE p_result' = Ok(packed, p_pos)
    /\ p_pc' = "done"
    /\ UNCHANGED <<input, dec_vars, serial_vars, p_pos, sections, packed, lock, w>>

Next ==
    \/ SerialHeader
    \/ SerialSection
    \/ SerialReturn
    \/ ParHeader
    \/ ParIndexSection
    \/ ParSpawn
    \/ \E i \in DOMAIN w : WorkerDecode(i)
    \/ \E i \in DOMAIN w : WorkerCodeIndex(i)
    \/ \E i \in DOMAIN w : \E j \in DOMAIN w[i].bres : BodyDecode(i, j)
    \/ \E i \in DOMAIN w : \E j \in DOMAIN w[i].bres : BodySkip(i, j)
    \/ \E i \in DOMAIN w : WorkerCodeCollect(i)
    \/ \E i \in DOMAIN w : WorkerLock(i)
    \/ \E i \in DOMAIN w : WorkerStore(i)
    \/ \E i \in DOMAIN w : WorkerSkip(i)
    \/ ParJoin

Spec == Init /\ [][Next]_vars

\* parse() called on its own
SerialNext ==
    \/ SerialHeader
    \/ SerialSection
    \/ SerialReturn

\* parse() runs on the caller's thread, which keeps being scheduled
FairSpec == Init /\ [][SerialNext]_vars /\ WF_vars(SerialNext)

\* ------------------------------------------- decoder functions on their own

\* a call of the decoder function fn on a Decoder over bytes; toks and aux
\* record the instructions and the numbers the bytes were built from
Call(fn, bytes, toks, aux) == [fn |-> fn, bytes |-> bytes, toks |-> toks, aux |-> aux]

\* the continuation bytes a long LEB128 encoding is built from
ContBytes == {128, 255}

\* five-byte encodings of values below 2^32 (bit 31 clear)
Leb5 ==
    {<<a, b, c, d, e>> : a \in ContBytes, b \in ContBytes, c \in ContBytes,
                         d \in ContBytes, e \in {0, 1, 7}}

\* five-byte encodings of values of more than 32 bits
Leb5Over ==
    {<<a, b, c, d, e>> : a \in ContBytes, b \in ContBytes, c \in ContBytes,
                         d \in ContBytes, e \in {16, 17, 112}}

\* six-byte encodings: the continuation bit set on the first five bytes
Leb6 ==
    {<<a, b, c, d, 128 + e, f>> : a \in ContBytes, b \in ContBytes,
                                  c \in ContBytes, d \in ContBytes,
                                  e \in {0, 1, 7}, f \in {0, 1}}

\* short encodings, unterminated ones and ten-byte ones
LebOther ==
    {<<0>>, <<127>>, <<128, 1>>, <<229, 142, 38>>, <<>>, <<128>>, <<255, 255>>,
     <<128, 128, 128, 128, 128, 128, 128, 128, 128, 1>>,
     <<128, 128, 128, 128, 128, 128, 128, 128, 128, 2>>,
     <<129, 128, 128, 128, 128, 128, 128, 128, 128, 130, 0>>,
     <<129, 128, 128, 128, 128, 128, 128, 128, 128, 130>>}

VarU32Calls ==
    {Call("read_var_u32", b, <<>>, <<>>) :
        b \in Leb5 \cup Leb5Over \cup Leb6 \cup LebOther}

\* an instruction with its encoding
Tok(bytes, instr) == [bytes |-> bytes, instr |-> instr]

\* the instructions constant expressions are built from
ConstTokens ==
    {Tok(<<65, 5>>, Instr("I32Const", <<5>>)),
     Tok(<<209>>, Instr("RefIsNull", <<>>)),
     Tok(<<106>>, Instr("I32Add", <<>>)),
     Tok(<<11>>, Instr("End", <<>>)),
     Tok(<<2, 64>>, Instr("Block", <<-64>>))}

\* the instructions function bodies are built from
ExprTokens ==
    {Tok(<<106>>, Instr("I32Add", <<>>)),
     Tok(<<11>>, Instr("End", <<>>)),
     Tok(<<2, 64>>, Instr("Block", <<-64>>)),
     Tok(<<4, 64>>, Instr("If", <<-64>>)),
     Tok(<<6, 64>>, Instr("Try", <<-64>>)),
     Tok(<<5>>, Instr("Else", <<>>))}

\* the sequences of 0..n instructions of pool
RECURSIVE TokRuns(_, _)
TokRuns(pool, n) ==
    IF n = 0 THEN {<<>>}
    ELSE TokRuns(pool, n - 1)
         \cup {Append(r, x) : r \in {q \in TokRuns(pool, n - 1) : Len(q) = n - 1},
                              x \in pool}

\* the bytes of a sequence of instructions
TokBytes(t) == Concat([i \in 1..Len(t) |-> t[i].bytes])

\* a call on the encoding of t after the bytes pre; aux holds the length of
\* pre and of each instruction's encoding
TokCall(fn, pre, t) ==
    Call(fn, pre \o TokBytes(t), [i \in 1..Len(t) |-> t[i].instr],
         <<Len(pre)>> \o [i \in 1..Len(t) |-> Len(t[i].bytes)])

ExprCalls ==
    {TokCall("read_const_expr", <<>>, t) : t \in TokRuns(ConstTokens, MaxInstrs)}
    \cup {TokCall("read_expr", <<>>, t) : t \in TokRuns(ExprTokens, MaxInstrs)}

\* a global section of one i32 global whose initializer is t
GlobalCalls ==
    {TokCall("parse_global_section", <<1, 127, 0>>, t) :
        t \in TokRuns(ConstTokens, MaxInstrs)}

\* byte strings that are well-formed UTF-8
ValidStrs ==
    {<<>>, <<97>>, <<0>>, <<127>>, <<97, 98>>, <<195, 169>>, <<226, 130, 172>>,
     <<237, 159, 191>>, <<240, 159, 152, 128>>, <<244, 143, 191, 191>>}

\* byte strings that are not: a stray continuation byte, overlong forms, a
\* truncated sequence, a surrogate, a code point above U+10FFFF
InvalidStrs ==
    {<<128>>, <<255>>, <<97, 128>>, <<192, 128>>, <<193, 191>>, <<195>>,
     <<195, 40>>, <<226, 130>>, <<224, 128, 128>>, <<237, 160, 128>>,
     <<240, 128, 128, 128>>, <<244, 144, 128, 128>>, <<245, 128, 128, 128>>}

\* the bytes that follow a string in the buffer
StrTails == {<<>>, <<0>>, <<128>>, <<97, 255>>}

\* read_str on a length, the string and what follows; aux holds the string
StrCalls ==
    {Call("read_str", <<Len(x)>> \o x \o t, <<>>, x) :
        x \in ValidStrs \cup InvalidStrs, t \in StrTails}
    \cup {Call("read_str", <<Len(x) + 1>> \o x, <<>>, x) : x \in ValidStrs}

\* the places a string is read from: the name of a custom section in both
\* drivers, the module and the field name of an import, the name of an export
StrCarrierCalls ==
    UNION {{Call("par_custom_section", <<Len(x)>> \o x \o <<1>>, <<>>, x),
            Call("custom_section", <<Len(x)>> \o x \o <<1>>, <<>>, x),
            Call("parse_import_section",
                 <<1, Len(x)>> \o x \o <<1, 102, 0, 0>>, <<>>, x),
            Call("parse_import_section",
                 <<1, 1, 109, Len(x)>> \o x \o <<0, 0>>, <<>>, x),
            Call("parse_export_section", <<1, Len(x)>> \o x \o <<0, 0>>, <<>>, x)} :
           x \in ValidStrs \cup InvalidStrs}

\* the unsigned LEB128 encoding of n < 16384
Leb(n) == IF n < 128 THEN <<n>> ELSE <<128 + (n % 128), n \div 128>>

\* the body of an element section of one segment: the flags f, then, as the
\* flags ask, the table index tab, the offset i32.const 0, the elemkind byte
\* ek or the reftype byte rt, and the initializers
ElementBody(f, tab, ek, rt) ==
    <<1>> \o Leb(f)
    \o (IF f \in {2, 6} THEN <<tab>> ELSE <<>>)
    \o (IF f \in {0, 2, 4, 6} THEN <<65, 0, 11>> ELSE <<>>)
    \o (IF f \in {1, 2, 3} THEN <<ek>> ELSE <<>>)
    \o (IF f \in {5, 6, 7} THEN <<rt>> ELSE <<>>)
    \o (IF f \in 0..3 THEN <<2, 7, 9>>
        ELSE IF f \in 4..7 THEN <<1, 210, 7, 11>> ELSE <<0, 0>>)

\* the flags, table indices, elemkind bytes and reftype bytes of the segments
ElementFlags == 0..9 \cup {64, 127, 128, 255}

ElementParams ==
    {<<f, tab, ek, rt>> : f \in ElementFlags, tab \in {0, 3},
                          ek \in {0, 1, 112}, rt \in {112, 111}}

\* parse_element_section on the body, and parse()'s loop iteration on the
\* whole section; aux holds the parameters
ElementCalls ==
    {Call("parse_element_section", ElementBody(x[1], x[2], x[3], x[4]), <<>>, x) :
        x \in ElementParams}
    \cup {Call("parse_section",
               <<9, Len(ElementBody(x[1], x[2], x[3], x[4]))>>
               \o ElementBody(x[1], x[2], x[3], x[4]), <<>>, x) :
            x \in ElementParams}

\* the bytes an s33 encoding is built from: continuation bytes with the low
\* bits 0, 0x73 and 0x7F, and last bytes around the sign bits
S33Cont == {128, 243, 255}

S33Last == {0, 1, 15, 16, 31, 63, 64, 65, 105, 106, 111, 112, 115, 116, 120, 125, 126, 127}

\* the sequences of n continuation bytes
RECURSIVE S33Prefixes(_)
S33Prefixes(n) ==
    IF n = 0 THEN {<<>>}
    ELSE {Append(q, c) : q \in S33Prefixes(n - 1), c \in S33Cont}

\* encodings of one to five bytes that end, encodings cut before their
\* last byte, and five bytes of which the fifth continues
S33Encodings ==
    UNION {{Append(q, l) : q \in S33Prefixes(n), l \in S33Last} : n \in 0..4}
    \cup UNION {S33Prefixes(n) : n \in 0..4}
    \cup {Append(q, c) : q \in S33Prefixes(4), c \in {128, 255}}

\* each encoding alone and followed by one more byte
S33Calls ==
    {Call(fn, e \o t, <<>>, <<Len(e)>>) :
        fn \in {"read_var_s33", "read_block_type", "read_heaptype"},
        e \in S33Encodings, t \in {<<>>, <<255>>}}

DecInputs ==
    VarU32Calls \cup ExprCalls \cup GlobalCalls \cup StrCalls
    \cup StrCarrierCalls \cup ElementCalls \cup S33Calls

DecInit ==
    /\ d_in \in DecInputs
    /\ d_res = NoResult
    /\ input = <<>>
    /\ s_pc = "header" /\ s_pos = 0 /\ s_module = DefaultModule
    /\ s_result = NoResult
    /\ p_pc = "header" /\ p_pos = 0 /\ sections = <<>>
    /\ packed = DefaultModule /\ lock = 0 /\ w = <<>>
    /\ p_result = NoResult

\* the call returns r
Return(fn, r) ==
    /\ d_in.fn = fn
    /\ d_res.tag = "None"
    /\ d_res' = r
    /\ UNCHANGED <<d_in, input, serial_vars, par_vars>>

CallReadVarU32 == Return("read_var_u32", read_var_u32(d_in.bytes, 0))

CallReadConstExpr == Return("read_const_expr", read_const_expr(d_in.bytes, 0))

CallReadExpr == Return("read_expr", read_expr(d_in.bytes, 0))

CallGlobalSection ==
    Return("parse_global_section", parse_global_section(d_in.bytes, 0))

CallReadStr == Return("read_str", read_str(d_in.bytes, 0))

CallParCustomSection ==
    Return("par_custom_section", par_custom_section(d_in.bytes))

CallCustomSection ==
    Return("custom_section", custom_section(d_in.bytes, 0, Len(d_in.bytes)))

CallImportSection ==
    Return("parse_import_section", parse_import_section(d_in.bytes, 0))

CallExportSection ==
    Return("parse_export_section", parse_export_section(d_in.bytes, 0))

CallElementSection ==
    Return("parse_element_section", parse_element_section(d_in.bytes, 0))

\* one iteration of parse()'s loop on a buffer that holds one section
CallSection == Return("parse_section", parse_section(d_in.bytes, 0, DefaultModule))

CallReadVarS33 == Return("read_var_s33", read_var_s33(d_in.bytes, 0))

CallReadBlockType == Return("read_block_type", read_block_type(d_in.bytes, 0))

\* read_heaptype returns one of the results its build can produce
CallReadHeapType ==
    \E r \in read_heaptype(d_in.bytes, 0) : Return("read_heaptype", r)

DecNext ==
    \/ CallReadVarS33
    \/ CallReadBlockType
    \/ CallReadHeapType
    \/ CallReadVarU32
    \/ CallReadStr
    \/ CallParCustomSection
    \/ CallCustomSection
    \/ CallImportSection
    \/ CallExportSection
    \/ CallElementSection
    \/ CallSection
    \/ CallReadConstExpr
    \/ CallReadExpr
    \/ CallGlobalSection

DecSpec == DecInit /\ [][DecNext]_vars

\* ----------------------------------------------------------- properties

\* the section headers of buf from pos on, walked as the drivers walk them:
\* the custom sections in wire order, each decoded from its declared window
RECURSIVE WireCustoms(_, _)
WireCustoms(buf, pos) ==
    IF pos > Len(buf) \/ Len(buf) - pos <= 1 THEN <<>>
    ELSE Force(read_section_header(buf, pos), LAMBDA h :
           IF h.tag # "Ok" \/ h.pos + h.val.size > Len(buf) THEN <<>>
           ELSE Force(par_custom_section(SubSeq(buf, h.pos + 1, h.pos + h.val.size)),
                      LAMBDA c :
                        (IF h.val.id = Custom /\ c.tag = "Ok" THEN <<c.val>> ELSE <<>>)
                        \o WireCustoms(buf, h.pos + h.val.size)))

\* the workers that installed or are about to install a section
Decoded == {"parsed", "locked", "done"}

\* the little-endian value of the four bytes after the magic
WireVersion ==
    input[5] + 256 * input[6] + 256 * 256 * input[7] + 256 * 256 * 256 * input[8]

\* C1: whenever parse() returns Ok(M), par_parse() on the same buffer returns
\* Ok(M') with M' = M in every field, under every schedule of the workers.
C1_ParEqualsSerial ==
    (p_pc = "done" /\ s_result.tag = "Ok")
        => (p_result.tag = "Ok" /\ p_result.val = s_result.val)

\* C2: the custom_sections list of a returned Module holds the input's custom
\* sections in wire order, in parse() and, for every completion order of the
\* workers, in par_parse().
C2_CustomOrder ==
    /\ s_result.tag = "Ok"
          => s_result.val.custom_sections = WireCustoms(input, 8)
    /\ p_result.tag = "Ok"
          => p_result.val.custom_sections = WireCustoms(input, 8)

\* C3: the final content of a standard slot after par_parse() is that of the
\* last section with that id on the wire, as in parse(), whatever the order
\* in which the workers complete.
C3_SlotLastWins ==
    (p_pc = "done" /\ p_result.tag = "Ok" /\ s_result.tag = "Ok")
        => /\ \A i \in DOMAIN sections :
                (/\ sections[i].id # Custom
                 /\ \A j \in DOMAIN sections :
                       sections[j].id = sections[i].id => j <= i)
                  => p_result.val[Slot(sections[i].id)] = w[i].val
           /\ \A id \in 1..12 :
                 p_result.val[Slot(id)] = s_result.val[Slot(id)]

\* every body of the Code task i consumed exactly its window
BodiesExact(i) ==
    \A j \in DOMAIN w[i].bres :
        w[i].bres[j].pos = w[i].codes[j].end - w[i].codes[j].start

\* C4: the CodeSection par_parse_code_section returns holds at position j the
\* body decoded from the j-th window on the wire, with the declared size,
\* whatever order the bodies completed in; when every body consumes exactly
\* its declared size it is the CodeSection parse_code_section returns.
C4_CodeBodiesByPosition ==
    \A i \in DOMAIN w :
        (sections[i].id = Code /\ w[i].pc \in Decoded)
            => /\ Len(w[i].val) = Len(w[i].codes)
               /\ \A j \in DOMAIN w[i].codes :
                     /\ w[i].val[j] = decode_body(Window(i), w[i].codes[j]).val
                     /\ w[i].val[j].size
                           = read_var_u32(Window(i), w[i].codes[j].start - 1).val
               /\ BodiesExact(i)
                     => /\ parse_code_section(Window(i), 0).tag = "Ok"
                        /\ w[i].val = parse_code_section(Window(i), 0).val

\* two bodies of one code section completed in the reverse of wire order
C4_Witness ==
    \E i \in DOMAIN w :
        /\ sections[i].id = Code
        /\ w[i].pc = "done"
        /\ w[i].order = <<2, 1>>
        /\ BodiesExact(i)
        /\ w[i].val[1] # w[i].val[2]

\* C5: when a worker returned an error, par_parse() returns Err with the
\* error of one of the failed workers and returns no Module.
C5_WorkerErrorSurfaces ==
    (p_pc = "done" /\ \E i \in DOMAIN w : w[i].pc = "failed")
        => /\ p_result.tag = "Err"
           /\ \E i \in DOMAIN w : w[i].pc = "failed" /\ p_result.val = w[i].val

\* C6: when parse() stopped in a section whose parser returned Ok with the
\* cursor not at the declared end, the result is SectionOutOfBounds(id,
\* declared size, cursor - section start); the 10-byte type section whose
\* entries take 8 bytes gives SectionOutOfBounds(1, 10, 8).
C6_SectionOutOfBounds ==
    /\ (s_pc = "done" /\ s_pos >= 8 /\ s_result.tag # "Ok")
          => LET h == read_section_header(input, s_pos)
                 end == h.pos + h.val.size
                 r == IF h.val.id = Custom THEN custom_section(input, h.pos, end)
                      ELSE section_parser(h.val.id, input, h.pos)
             IN  (h.tag = "Ok" /\ r.tag = "Ok" /\ r.pos # end)
                    => /\ s_result.tag = "Err"
                       /\ s_result.val.kind = "SectionOutOfBounds"
                       /\ s_result.val.args = <<h.val.id, h.val.size, r.pos - h.pos>>
    /\ (s_pc = "done" /\ input = Header(Version1) \o SecTypeTen)
          => s_result.val = ErrSectionOutOfBounds(1, 10, 8)
    /\ s_pc = "loop" => s_result.tag = "None"

\* parse() rejected a section that consumed fewer bytes than declared
C6_Witness ==
    /\ s_pc = "done"
    /\ s_result.tag = "Err"
    /\ s_result.val = ErrSectionOutOfBounds(1, 10, 8)

\* C7: when parse() or par_parse() returns Ok, the parser of every section
\* consumed exactly the bytes its header declares, so a section whose parser
\* consumes fewer bytes is rejected in both modes.
C7_ExactConsumption ==
    /\ (s_pc = "done" /\ s_result.tag = "Ok" /\ p_pc \in {"workers", "done"})
          => \A i \in DOMAIN sections :
                sections[i].end <= Len(input)
                /\ par_section(sections[i].id, Window(i)).tag = "Ok"
                /\ par_section(sections[i].id, Window(i)).pos
                      = sections[i].end - sections[i].start
    /\ (p_pc = "done" /\ p_result.tag = "Ok")
          => \A i \in DOMAIN sections :
                w[i].pos = sections[i].end - sections[i].start

\* C8: an input whose first four bytes are not the magic makes parse() return
\* InvalidWasm, whatever follows, also when fewer than four bytes follow.
C8_BadMagicInvalidWasm ==
    (s_pc = "done" /\ Len(input) >= 4 /\ SubSeq(input, 1, 4) # Magic)
        => (s_result.tag = "Err" /\ s_result.val = ErrInvalidWasm)

\* C9: for an 8-byte input made of the magic and four bytes v, parse()
\* returns Ok with version the little-endian u32 of v, no custom section and
\* every standard slot at its default.
C9_HeaderOnly ==
    (s_pc = "done" /\ Len(input) = 8 /\ SubSeq(input, 1, 4) = Magic)
        => /\ s_result.tag = "Ok"
           /\ s_result.val = [DefaultModule EXCEPT !.version = WireVersion]

\* parse() returned for a header whose version bytes differ from each other
C9_Witness ==
    /\ s_pc = "done"
    /\ input = Header(<<1, 0, 127, 0>>)
    /\ s_result.tag = "Ok"
    /\ s_result.val.version = 1 + 127 * 65536

\* the header followed by one section header of declared size 0 and no body
IsZeroSizeInput ==
    /\ Len(input) = 10
    /\ SubSeq(input, 1, 4) = Magic
    /\ input[9] \in 0..12
    /\ input[10] = 0

\* C10 as stated: a section of declared size 0 with no body is accepted and
\* its slot is empty.
C10_ZeroSizeAccepted ==
    (s_pc = "done" /\ IsZeroSizeInput)
        => /\ s_result.tag = "Ok"
           /\ s_result.val = [DefaultModule EXCEPT !.version = WireVersion]

\* C10 amended: for every section id 0x00..0x0C, the header followed by a
\* section header of declared size 0 and no body is rejected: every section
\* parser starts by reading a LEB128 count, index or name length, so parse()
\* returns the Leb128 error for the end of input.
C10_ZeroSizeRejected ==
    (s_pc = "done" /\ IsZeroSizeInput)
        => (s_result.tag = "Err" /\ s_result.val = ErrLeb128Io)

\* parse() returned for the empty type section of declared size 0
C10_Witness ==
    /\ s_pc = "done"
    /\ input = Header(Version1) \o <<1, 0>>
    /\ s_result.tag = "Err"

\* ------------------------------------------------------ C11 .. C20

\* the value of a LEB128 encoding of at most five bytes, bit 31 clear
RECURSIVE LebValue(_, _)
LebValue(b, i) ==
    IF i > Len(b) THEN 0 ELSE (b[i] % 128) + 128 * LebValue(b, i + 1)

\* the first four bytes of b carry the continuation bit
FourContinued(b) == Len(b) >= 5 /\ \A i \in 1..4 : b[i] >= 128

\* C14: read_var_u32 returns the value of a maximum-length five-byte encoding
\* of a value up to 2^32-1, and answers with the Leb128 error an encoding of
\* six bytes (continuation bit on the first five) or of a value of more than
\* 32 bits, never with a truncated value.
C14_VarU32Boundary ==
    (d_in.fn = "read_var_u32" /\ d_res.tag # "None")
        => /\ (FourContinued(d_in.bytes) /\ Len(d_in.bytes) = 5
                 /\ d_in.bytes[5] < 16)
                 => /\ d_res.tag = "Ok"
                    /\ d_res.val = LebValue(d_in.bytes, 1)
                    /\ d_res.pos = 5
           /\ (FourContinued(d_in.bytes) /\ d_in.bytes[5] >= 16)
                 => /\ d_res.tag = "Err"
                    /\ d_res.val.kind = "Leb128"

\* the length of the encodings of the first k instructions of the call
RECURSIVE SumLens(_)
SumLens(k) == IF k = 0 THEN 0 ELSE d_in.aux[k + 1] + SumLens(k - 1)

\* the offset just past the first k instructions of the call
EndOf(k) == d_in.aux[1] + SumLens(k)

\* the least element of a non-empty set of numbers
Least(S) == CHOOSE x \in S : \A y \in S : x <= y

\* the positions of the call's instructions at which read_const_expr stops:
\* an End or an instruction that is not constant
ConstStops == {i \in DOMAIN d_in.toks :
                  d_in.toks[i].op = "End" \/ ~is_const(d_in.toks[i])}

\* C12: read_const_expr returns Ok exactly when every instruction before the
\* first End is constant, with the instructions up to and including that End;
\* otherwise it returns InvalidConstExprOpcode(i) for the first instruction i
\* that is neither constant nor End; an initializer of a global that holds
\* I32Add is answered with InvalidConstExprOpcode(I32Add).
C12_ConstExpr ==
    /\ (d_in.fn = "read_const_expr" /\ d_res.tag # "None" /\ ConstStops # {})
          => LET j == Least(ConstStops)
             IN  IF d_in.toks[j].op = "End"
                 THEN /\ d_res.tag = "Ok"
                      /\ d_res.val = SubSeq(d_in.toks, 1, j)
                      /\ d_res.pos = EndOf(j)
                      /\ \A k \in 1..(j - 1) : is_const(d_res.val[k])
                 ELSE /\ d_res.tag = "Err"
                      /\ d_res.val.kind = "InvalidConstExprOpcode"
                      /\ d_res.val.instr = d_in.toks[j]
    /\ (d_in.fn = "read_const_expr" /\ d_res.tag = "Ok")
          => /\ ConstStops # {}
             /\ d_in.toks[Least(ConstStops)].op = "End"
    /\ (d_in.fn = "parse_global_section" /\ d_res.tag # "None"
          /\ ConstStops # {} /\ d_in.toks[Least(ConstStops)].op = "I32Add")
          => /\ d_res.tag = "Err"
             /\ d_res.val = ErrInvalidConstExprOpcode(Instr("I32Add", <<>>))

\* read_const_expr refused an initializer at its I32Add, after a constant
C12_Witness ==
    /\ d_in.fn = "read_const_expr"
    /\ d_in.toks = <<Instr("I32Const", <<5>>), Instr("I32Add", <<>>),
                     Instr("End", <<>>)>>
    /\ d_res.tag = "Err"
    /\ d_res.val.kind = "InvalidConstExprOpcode"

\* the instructions that open a block
BlockOpeners == {"Block", "Loop", "If", "Try", "TryTable"}

\* the block depth after the first k instructions of e: +1 for each opener,
\* -1 for each End
RECURSIVE Depth(_, _)
Depth(e, k) ==
    IF k = 0 THEN 0
    ELSE Depth(e, k - 1)
         + (IF e[k].op \in BlockOpeners THEN 1 ELSE 0)
         - (IF e[k].op = "End" THEN 1 ELSE 0)

\* the positions of the call's instructions that hold an End met at depth 0
OuterEnds == {i \in DOMAIN d_in.toks :
                 d_in.toks[i].op = "End" /\ Depth(d_in.toks, i - 1) = 0}

\* C18: an Expr returned by read_expr ends with End; the count of +1 for
\* each Block, Loop, If, Try, TryTable and -1 for each End is never negative
\* before the final End, which is the first End met at depth 0; Else and the
\* other instructions leave it unchanged; nothing after that End is consumed.
C18_ExprDepth ==
    /\ (d_in.fn = "read_expr" /\ d_res.tag = "Ok")
          => LET e == d_res.val
                 n == Len(d_res.val)
             IN  /\ n >= 1
                 /\ e[n].op = "End"
                 /\ \A k \in 0..(n - 1) : Depth(e, k) >= 0
                 /\ Depth(e, n - 1) = 0
                 /\ \A k \in 1..(n - 1) : e[k].op = "End" => Depth(e, k - 1) > 0
                 /\ e = SubSeq(d_in.toks, 1, n)
                 /\ d_res.pos = EndOf(n)
    /\ (d_in.fn = "read_expr" /\ d_res.tag # "None")
          => (d_res.tag = "Ok" <=> OuterEnds # {})
    /\ (d_in.fn = "read_expr" /\ d_res.tag = "Ok")
          => Len(d_res.val) = Least(OuterEnds)

\* read_expr returned an expression with a nested block and an Else, and
\* left the instruction after the final End unread
C18_Witness ==
    /\ d_in.fn = "read_expr"
    /\ d_in.toks = <<Instr("If", <<-64>>), Instr("Else", <<>>),
                     Instr("End", <<>>), Instr("End", <<>>)>>
    /\ d_res.tag = "Ok"
    /\ Len(d_res.val) = 4

\* C15: read_str reads the length L and accepts the next L bytes iff they
\* are valid UTF-8: it returns them and leaves the cursor just past them, or
\* returns the Utf8 error; the same holds of the name of a custom section,
\* the module and field names of an import and the name of an export.
C15_StrUtf8 ==
    /\ (d_in.fn = "read_str" /\ d_res.tag # "None"
          /\ Len(d_in.bytes) >= 1 + d_in.bytes[1])
          => IF d_in.aux \in ValidStrs
             THEN /\ d_res.tag = "Ok"
                  /\ d_res.val = d_in.aux
                  /\ d_res.pos = 1 + Len(d_in.aux)
             ELSE /\ d_res.tag = "Err"
                  /\ d_res.val = ErrUtf8
    /\ (d_in.fn \in {"par_custom_section", "custom_section"} /\ d_res.tag # "None")
          => IF d_in.aux \in ValidStrs
             THEN d_res.tag = "Ok" /\ d_res.val.name = d_in.aux
             ELSE d_res.tag = "Err" /\ d_res.val = ErrUtf8
    /\ (d_in.fn = "parse_import_section" /\ d_res.tag # "None")
          => IF d_in.aux \in ValidStrs
             THEN /\ d_res.tag = "Ok"
                  /\ d_in.aux \in {d_res.val[1].module_name, d_res.val[1].field_name}
             ELSE d_res.tag = "Err" /\ d_res.val = ErrUtf8
    /\ (d_in.fn = "parse_export_section" /\ d_res.tag # "None")
          => IF d_in.aux \in ValidStrs
             THEN d_res.tag = "Ok" /\ d_res.val[1].name = d_in.aux
             ELSE d_res.tag = "Err" /\ d_res.val = ErrUtf8

\* read_str refused a surrogate code point that is followed by more bytes
C15_Witness ==
    /\ d_in.fn = "read_str"
    /\ d_in.bytes = <<3, 237, 160, 128, 97, 255>>
    /\ d_res.tag = "Err"
    /\ d_res.val = ErrUtf8

\* the element segment the table of flags gives for the parameters
\* <<flags, table index, elemkind byte, reftype byte>>
ExpectedElement(x) ==
    [kind |-> IF x[1] \in {0, 2, 4, 6}
              THEN [Active |->
                      [table |-> IF x[1] \in {2, 6} THEN <<x[2]>> ELSE <<>>,
                       offset |-> <<Instr("I32Const", <<0>>), Instr("End", <<>>)>>]]
              ELSE IF x[1] \in {1, 5} THEN [Passive |-> TRUE]
              ELSE [Declared |-> TRUE],
     ty |-> IF x[1] \in 5..7 /\ x[4] = 111 THEN "ExternRef" ELSE "FuncRef",
     init |-> IF x[1] \in 0..3
              THEN <<<<Instr("RefFunc", <<7>>), Instr("End", <<>>)>>,
                     <<Instr("RefFunc", <<9>>), Instr("End", <<>>)>>>>
              ELSE <<<<Instr("RefFunc", <<7>>), Instr("End", <<>>)>>>>]

\* the parameters of a segment the flags table accepts
ElementAccepted(x) == x[1] \in 0..7 /\ (x[1] \in 1..3 => x[3] = 0)

\* C19: for every flags value 0..7 parse_element_section decodes the segment
\* as the flags table says: the kind (Active with the table index only for 2
\* and 6, Passive, Declared), the element type (FuncRef, or from the elemkind
\* or reftype byte) and the initializers (function indices wrapped as
\* [RefFunc(idx), End], or constant expressions), the fields being read in
\* the order table index, offset, type, initializers.
C19_ElementFlags ==
    /\ (d_in.fn = "parse_element_section" /\ d_res.tag # "None"
          /\ ElementAccepted(d_in.aux))
          => /\ d_res.tag = "Ok"
             /\ d_res.val = <<ExpectedElement(d_in.aux)>>
             /\ d_res.pos = Len(d_in.bytes)
    /\ (d_in.fn = "parse_section" /\ d_res.tag # "None"
          /\ ElementAccepted(d_in.aux))
          => /\ d_res.tag = "Ok"
             /\ d_res.val.element_section = <<ExpectedElement(d_in.aux)>>

\* an active segment with a table index and function indices was decoded
C19_Witness ==
    /\ d_in.fn = "parse_element_section"
    /\ d_in.aux = <<2, 3, 0, 112>>
    /\ d_res.tag = "Ok"
    /\ d_res.val[1].kind.Active.table = <<3>>

\* C20: parse_element_section returns InvalidFlags(flags, ..) for every
\* flags value above 7 and InvalidElmType(b) when flags is 1, 2 or 3 and the
\* elemkind byte b is not 0; parse() then stops with that error and returns
\* no Module, so no element section is stored.
C20_ElementErrors ==
    (d_in.fn \in {"parse_element_section", "parse_section"} /\ d_res.tag # "None")
        => /\ d_in.aux[1] > 7
              => /\ d_res.tag = "Err"
                 /\ d_res.val = ErrInvalidFlags(d_in.aux[1], "element segment")
           /\ (d_in.aux[1] \in 1..3 /\ d_in.aux[3] # 0)
              => /\ d_res.tag = "Err"
                 /\ d_res.val = ErrInvalidElmType(d_in.aux[3])

\* parse()'s loop iteration stopped at the elemkind byte of an active
\* segment whose table index and offset had been read
C20_Witness ==
    /\ d_in.fn = "parse_section"
    /\ d_in.aux = <<2, 3, 112, 112>>
    /\ d_res.tag = "Err"
    /\ d_res.val = ErrInvalidElmType(112)

\* ------------------------------------------- C11, C13, C16, C17: parse()

\* the sections of buf from pos on, walked by the sizes their headers
\* declare while at least one byte remains: the header's offset, the id, the
\* offset of the body and the declared size
RECURSIVE WireSections(_, _)
WireSections(buf, pos) ==
    IF pos >= Len(buf) THEN <<>>
    ELSE Force(read_section_header(buf, pos), LAMBDA h :
           IF h.tag # "Ok" THEN <<>>
           ELSE <<[hdr |-> pos, id |-> h.val.id, start |-> h.pos, size |-> h.val.size]>>
                \o WireSections(buf, h.pos + h.val.size))

\* the offset after the last section of WireSections(buf, pos)
WireEnd(buf, pos) ==
    LET ws == WireSections(buf, pos)
    IN  IF ws = <<>> THEN pos ELSE ws[Len(ws)].start + ws[Len(ws)].size

\* C17: parse() returns Ok only when every byte after the header belongs to
\* a section it parsed, so no trailing byte is accepted, and a remaining
\* byte that is not a section id gives InvalidSectionId.
C17_NoTrailingByte ==
    /\ (s_pc = "done" /\ s_result.tag = "Ok")
          => /\ s_result.pos = Len(input)
             /\ WireEnd(input, 8) = Len(input)
    /\ (s_pc = "done" /\ Len(input) > 8 /\ WireEnd(input, 8) < Len(input)
           /\ input[WireEnd(input, 8) + 1] \notin 0..12)
          => /\ s_result.tag = "Err"
             /\ s_result.val = ErrInvalidSectionId(input[WireEnd(input, 8) + 1])

\* the n code entries parse_code_section decodes in buf from pos on: where
\* the entry starts (after its size), the size it declares and the offset
\* at which its decoding ended
RECURSIVE EntrySpans(_, _, _)
EntrySpans(buf, pos, n) ==
    IF n = 0 THEN <<>>
    ELSE Force(code_entry(buf, pos), LAMBDA r :
           IF r.tag # "Ok" THEN <<>>
           ELSE <<[at |-> pos, start |-> read_var_u32(buf, pos).pos,
                   size |-> r.val.size, end |-> r.pos]>>
                \o EntrySpans(buf, r.pos, n - 1))

\* the entries of the code section whose body starts at pos
CodeSpans(buf, pos) ==
    Force(read_var_u32(buf, pos), LAMBDA n :
      IF n.tag # "Ok" THEN <<>> ELSE EntrySpans(buf, n.pos, n.val))

\* C13: in parse() and in par_parse(), the decoding of a code entry reads no
\* byte at or after entry_start + byte_size, and the next entry starts at
\* entry_start + byte_size.
C13_CodeEntryBounds ==
    /\ (s_pc = "done" /\ s_result.tag = "Ok")
          => \A k \in DOMAIN WireSections(input, 8) :
                LET sec == WireSections(input, 8)[k]
                    spans == CodeSpans(input, sec.start)
                IN  sec.id = Code
                      => \A j \in DOMAIN spans :
                            /\ spans[j].end <= spans[j].start + spans[j].size
                            /\ j < Len(spans)
                                 => spans[j + 1].at = spans[j].start + spans[j].size
    /\ \A i \in DOMAIN w :
          (sections[i].id = Code /\ w[i].pc \in Decoded)
             => \A j \in DOMAIN w[i].bres :
                   /\ w[i].bres[j].pos <= w[i].codes[j].end - w[i].codes[j].start
                   /\ j < Len(w[i].codes)
                        => read_var_u32(Window(i), w[i].codes[j].end).pos
                              = w[i].codes[j + 1].start

\* the bytes of one section of WireSections, header included
WirePiece(buf, sec) == SubSeq(buf, sec.hdr + 1, sec.start + sec.size)

\* buf is the header followed by well-formed sections that fill it, no
\* standard id twice
WellFormed(buf) ==
    /\ Len(buf) >= 8
    /\ SubSeq(buf, 1, 4) = Magic
    /\ WireEnd(buf, 8) = Len(buf)
    /\ \A k \in DOMAIN WireSections(buf, 8) :
          /\ WirePiece(buf, WireSections(buf, 8)[k]) \in GoodPool
          /\ \A j \in DOMAIN WireSections(buf, 8) :
                (j # k /\ WireSections(buf, 8)[j].id # Custom)
                   => WireSections(buf, 8)[j].id # WireSections(buf, 8)[k].id

\* the ids of the sections whose body is a count followed by entries
VecIds == {1, 2, 3, 4, 5, 6, 7, 9, 10, 11}

\* C11: parse() of a well-formed module returns Ok, and every section of the
\* Module holds as many entries as the count prefix on the wire says, in
\* wire order.
C11_WellFormedParses ==
    (s_pc = "done" /\ p_pc = "header" /\ WellFormed(input))
        => /\ s_result.tag = "Ok"
           /\ \A k \in DOMAIN WireSections(input, 8) :
                 LET sec == WireSections(input, 8)[k]
                 IN  /\ sec.id \in VecIds
                          => Len(s_result.val[Slot(sec.id)]) = input[sec.start + 1]
                     /\ sec.id = Code
                          => \A j \in DOMAIN s_result.val.code_section :
                                s_result.val.code_section[j].size
                                   = CodeSpans(input, sec.start)[j].size
                     /\ WirePiece(input, sec) = SecTypeTwo
                          => s_result.val.type_section
                                = <<[params |-> <<>>, results |-> <<>>],
                                    [params |-> <<"I32">>, results |-> <<>>]>>
                     /\ WirePiece(input, sec) = SecCodeTwo
                          => /\ s_result.val.code_section[1].locals = <<>>
                             /\ Len(s_result.val.code_section[2].locals) = 1
           /\ Len(s_result.val.custom_sections)
                 = Cardinality({k \in DOMAIN WireSections(input, 8) :
                                   WireSections(input, 8)[k].id = Custom})

\* parse() returned a two-entry type section and a two-entry code section
C11_Witness ==
    /\ s_pc = "done"
    /\ p_pc = "header"
    /\ WellFormed(input)
    /\ input = Header(Version1) \o SecTypeTwo \o SecCodeTwo
    /\ s_result.tag = "Ok"
    /\ Len(s_result.val.type_section) = 2
    /\ Len(s_result.val.code_section) = 2

\* the sections of buf after the header, each with its own header
WirePieces(buf) ==
    [k \in DOMAIN WireSections(buf, 8) |-> WirePiece(buf, WireSections(buf, 8)[k])]

\* buf is the header followed by sections that fill it, each of which
\* parses when it is the only section, no standard id twice
EachParses(buf) ==
    /\ Len(buf) >= 8
    /\ SubSeq(buf, 1, 4) = Magic
    /\ WireEnd(buf, 8) = Len(buf)
    /\ \A k \in DOMAIN WireSections(buf, 8) :
          /\ parse(SubSeq(buf, 1, 8) \o WirePieces(buf)[k]).tag = "Ok"
          /\ \A j \in DOMAIN WireSections(buf, 8) :
                (j # k /\ WireSections(buf, 8)[j].id # Custom)
                   => WireSections(buf, 8)[j].id # WireSections(buf, 8)[k].id

\* buf with its sections in the order f
Permuted(buf, f) ==
    SubSeq(buf, 1, 8) \o Concat([k \in DOMAIN f |-> WirePieces(buf)[f[k]]])

\* C16: parse() of an input whose sections each parse, no standard id twice,
\* returns Ok, and so does parse() of every permutation of the sections,
\* with the same content in every standard slot (that of the section decoded
\* alone) and the custom sections in the order of the permuted wire.
C16_OrderNotEnforced ==
    (s_pc = "done" /\ p_pc = "header" /\ EachParses(input))
        => /\ s_result.tag = "Ok"
           /\ \A k \in DOMAIN WireSections(input, 8) :
                 LET sec == WireSections(input, 8)[k]
                 IN  sec.id # Custom
                       => s_result.val[Slot(sec.id)]
                             = section_parser(sec.id, input, sec.start).val
           /\ \A f \in Permutations(DOMAIN WireSections(input, 8)) :
                 Force(parse(Permuted(input, f)), LAMBDA r :
                   /\ r.tag = "Ok"
                   /\ \A id \in 1..12 : r.val[Slot(id)] = s_result.val[Slot(id)]
                   /\ r.val.custom_sections = WireCustoms(Permuted(input, f), 8))

\* parse() accepted an export section placed before the type section and
\* a custom section
C16_Witness ==
    /\ s_pc = "done"
    /\ p_pc = "header"
    /\ input = Header(Version1) \o SecExport \o SecTypeA
    /\ EachParses(input)
    /\ s_result.tag = "Ok"
    /\ s_result.val.export_section # <<>>
    /\ parse(Header(Version1) \o SecTypeA \o SecExport).tag = "Ok"
    /\ parse(Header(Version1) \o SecTypeA \o SecExport).val = s_result.val

\* ------------------------------------------- C21 .. C24: s33 and its users

\* the position of the first byte of b with its high bit clear, 0 when b has
\* none
S33End(b) ==
    IF \E i \in DOMAIN b : b[i] < 128
    THEN CHOOSE i \in DOMAIN b : b[i] < 128 /\ \A j \in 1..(i - 1) : b[j] >= 128
    ELSE 0

\* the low seven bits of the first k bytes of b, little end first
RECURSIVE S33Low(_, _)
S33Low(b, k) ==
    IF k = 0 THEN 0 ELSE S33Low(b, k - 1) + (b[k] % 128) * Pow2(7 * (k - 1))

\* the value of the n-byte encoding at the head of b: the low 33 bits of
\* the encoded bits as a two's complement number, in the limbs of I64
S33Value(b, n) ==
    IF n <= 4
    THEN I64(IF S33Low(b, n) >= Pow2(7 * n - 1)
             THEN S33Low(b, n) - Pow2(7 * n)
             ELSE S33Low(b, n))
    ELSE [hi |-> IF b[5] % 32 >= 16 THEN (b[5] % 32) - 32 ELSE b[5] % 32,
          lo |-> S33Low(b, 4)]

\* the encoding at the head of b is one read_var_s33 is to accept: it ends
\* within five bytes, and the bits of a fifth byte above the sign bit equal
\* the sign bit
S33Accepted(b) ==
    /\ S33End(b) \in 1..5
    /\ S33End(b) = 5 => (b[5] \div 16) % 8 \in {0, 7}

\* C21: every s33 encoding of one to five bytes that read_var_s33 accepts
\* gives the low 33 bits of the encoded value as a signed number, the
\* five-byte encodings of negative values included.
C21_S33Value ==
    (d_in.fn = "read_var_s33" /\ d_res.tag = "Ok")
        => d_res.val = S33Value(d_in.bytes, S33End(d_in.bytes))

\* C22: read_var_s33 reads at most five bytes and stops at the first byte
\* with its high bit clear; it returns the too-long error exactly when the
\* fifth byte continues or its bits above the sign bit differ from the sign
\* bit, and accepts every other encoding of at most five bytes.
C22_S33Length ==
    (d_in.fn = "read_var_s33" /\ d_res.tag # "None")
        => /\ d_res.tag \in {"Ok", "Err"}
           /\ d_res.tag = "Ok"
                 => /\ d_res.pos = S33End(d_in.bytes)
                    /\ d_res.pos <= 5
           /\ S33Accepted(d_in.bytes) <=> d_res.tag = "Ok"
           /\ (d_res.tag = "Err" /\ d_res.val = ErrS33TooLong)
                 <=> /\ Len(d_in.bytes) >= 5
                     /\ \A i \in 1..4 : d_in.bytes[i] >= 128
                     /\ \/ d_in.bytes[5] >= 128
                        \/ (d_in.bytes[5] \div 16) % 8 \notin {0, 7}

\* a fifth byte without continuation bit whose bits 33 and 34 are clear and
\* whose sign bit is set was rejected, one more byte following it
C22_Witness ==
    /\ d_in.fn = "read_var_s33"
    /\ d_in.bytes = <<255, 255, 255, 255, 31, 255>>
    /\ d_res.tag = "Err"
    /\ d_res.val = ErrS33TooLong

\* C23: read_block_type gives Empty for 0x40 and Type(vt) for a valtype
\* byte, reading that one byte; otherwise it decodes an s33 and gives
\* FuncType(index) for a value that is not negative and InvalidBlockType for
\* a negative one.
C23_BlockType ==
    (d_in.fn = "read_block_type" /\ d_res.tag # "None" /\ Len(d_in.bytes) >= 1)
        => LET b == d_in.bytes
           IN  /\ b[1] = 64
                    => (d_res.tag = "Ok" /\ d_res.pos = 1
                        /\ d_res.val = [Empty |-> TRUE])
               /\ b[1] \in {111, 112, 123, 124, 125, 126, 127}
                    => (d_res.tag = "Ok" /\ d_res.pos = 1
                        /\ d_res.val = [Type |-> ValType_try_from(b[1]).val])
               /\ b[1] = 127 => d_res.val = [Type |-> "I32"]
               /\ b[1] = 112 => d_res.val = [Type |-> "Ref(FuncRef)"]
               /\ (b[1] \notin {64, 111, 112, 123, 124, 125, 126, 127}
                   /\ S33Accepted(b))
                    => IF S33Value(b, S33End(b)).hi >= 0
                       THEN /\ d_res.tag = "Ok"
                            /\ d_res.pos = S33End(b)
                            /\ d_res.val = [FuncType |-> S33Value(b, S33End(b))]
                       ELSE /\ d_res.tag = "Err"
                            /\ d_res.val = ErrInvalidBlockType

\* the five-byte encoding of -1 was rejected as a block type
C23_Witness ==
    /\ d_in.fn = "read_block_type"
    /\ d_in.bytes = <<255, 255, 255, 255, 127>>
    /\ d_res.tag = "Err"
    /\ d_res.val = ErrInvalidBlockType

\* C24: read_heaptype gives Concrete(index) for a value that is not
\* negative, the abstract heap type for each code -0x0D..-0x16 whatever the
\* length of the encoding, and the InvalidType error for every other
\* negative value, with no overflow on the way.
C24_HeapType ==
    (d_in.fn = "read_heaptype" /\ d_res.tag # "None" /\ S33Accepted(d_in.bytes))
        => LET v == S33Value(d_in.bytes, S33End(d_in.bytes))
           IN  IF v.hi >= 0
               THEN d_res.tag = "Ok" /\ d_res.val = [Concrete |-> v]
               ELSE IF v.hi = -1 /\ v.lo - Pow2(28) \in -22..-13
               THEN d_res.tag = "Ok"
                    /\ d_res.val = AbstractHeapType(v.lo - Pow2(28))
               ELSE d_res.tag = "Err" /\ d_res.val.kind = "InvalidType"

\* ------------------------------------------- C25 .. C29: the two drivers

\* C27: parse() and par_parse() return Ok or Err on every input and never
\* panic; a truncated input gives the truncation error.
C27_NeverPanics ==
    /\ s_pc = "done" => s_result.tag \in {"Ok", "Err"}
    /\ p_pc = "done" => p_result.tag \in {"Ok", "Err"}
    /\ \A i \in DOMAIN w : w[i].pc # "panicked"

\* C29: on every input on which parse() returns an error, par_parse()
\* returns an error too, under every schedule of the workers.
C29_ParRejectsWhatSerialRejects ==
    (p_pc = "done" /\ s_result.tag = "Err") => p_result.tag = "Err"

\* C26: in parse() a section parser reads no byte after the declared end of
\* its section, and a section whose entries need more bytes than declared
\* fails with the truncation error its parser gives on the declared window.
C26_WindowBounded ==
    s_pc = "done"
        => \A k \in DOMAIN WireSections(input, 8) :
              LET sec == WireSections(input, 8)[k]
                  end == sec.start + sec.size
              IN  (sec.hdr <= s_pos /\ end <= Len(input))
                     => Force(IF sec.id = Custom
                              THEN custom_section(input, sec.start, end)
                              ELSE section_parser(sec.id, input, sec.start),
                              LAMBDA r :
                         /\ r.tag = "Ok" => r.pos <= end
                         /\ Force(par_section(sec.id, SubSeq(input, sec.start + 1, end)),
                                  LAMBDA alone :
                              (/\ sec.hdr = s_pos
                               /\ s_result.tag = "Err"
                               /\ alone.tag = "Err"
                               /\ alone.val.kind \in {"Decode", "Leb128"})
                                  => s_result.val = alone.val))

\* C25: in par_parse() the lock is held only by a worker that has decoded
\* its section and only for the store: it is taken from "parsed", the next
\* step of the holder is the store that releases it, no decoding step is
\* taken by a holder, a failing worker never held it, and it is free when
\* par_parse() returns.
C25_LockHeldForStoreOnly ==
    /\ [](lock # 0 => (lock \in DOMAIN w /\ w[lock].pc = "locked"
                        /\ ENABLED WorkerStore(lock)))
    /\ [](p_pc = "done" => lock = 0)
    /\ [][lock' # lock
            => \E i \in DOMAIN w :
                  \/ (w[i].pc = "parsed" /\ w'[i].pc = "locked" /\ lock' = i)
                  \/ (w[i].pc = "locked" /\ w'[i].pc = "done" /\ lock = i)]_vars
    /\ [][(p_pc = "workers" /\ packed' # packed) => (lock # 0 /\ lock' = 0)]_vars
    /\ [][\A i \in DOMAIN w :
            (i \in DOMAIN w' /\ w'[i].pc # w[i].pc)
               => /\ w'[i].pc = "locked"
                      => (w[i].pc = "parsed" /\ lock = 0 /\ lock' = i
                          /\ packed' = packed)
                  /\ w[i].pc = "locked"
                      => (w'[i].pc = "done" /\ lock' = 0
                          /\ packed' = Install(packed, sections[i].id, w[i].val))
                  /\ w[i].pc \in {"idle", "bodies"}
                      => (lock # i /\ lock' = lock /\ packed' = packed)
                  /\ w'[i].pc \in {"failed", "panicked"}
                      => w[i].pc \in {"idle", "bodies"}]_vars

\* a worker holds the lock for its store after another worker's parser
\* has failed
C25_Witness ==
    /\ lock # 0
    /\ w[lock].pc = "locked"
    /\ \E i \in DOMAIN w : w[i].pc = "failed"

\* C28: every iteration of parse()'s section loop returns an error or moves
\* the cursor forward by at least two bytes, and parse() returns Ok or the
\* first error in the end.
C28_ParseTerminates ==
    /\ [][(s_pc = "loop" /\ s_pc' = "loop") => s_pos' >= s_pos + 2]_vars
    /\ [][(s_pc = "loop" /\ s_pc' = "done") => s_result'.tag \in {"Ok", "Err"}]_vars
    /\ <>(s_pc = "done" /\ s_result.tag \in {"Ok", "Err"})

====
